---- MODULE Spec2Model ----
(***************************************************************************)
(* Pattern construction of foam/build_optimised_pattern.py: the two        *)
(* sequence selectors, the per-row assembler with its rotation fit, and    *)
(* the grid driver with its worker pool.                                   *)
(*                                                                         *)
(* Real numbers are integers in units of 1/Unit, so that the reciprocal    *)
(* (frequency <-> period) is exact on the values used: 1/x is UnitSq/x.    *)
(* Python indices are kept 0-based; a sequence s is read at s[i + 1].      *)
(***************************************************************************)
EXTENDS Integers, Sequences, FiniteSets, TLC

\* ------------------------------------------------------------------ numbers
Unit == 2 * 3
UnitSq == Unit * Unit

\* 1/x of numpy, exact on the divisors of UnitSq (and on the sentinel -1).
Recip(x) == UnitSq \div x

Abs(x) == IF x < 0 THEN -x ELSE x

\* The value appended for "no theoretical counterpart": the number -1.
NoValue == -Unit

\* The radial order reported for "no theoretical counterpart".
NoOrder == -1

\* Common denominator of every per-point chi-square of the model: a
\* chi-square is held as the integer chi * ChiDen.
ChiDen == (2 * UnitSq) * (2 * UnitSq)

\* The penalty chi-square 1e16, held as mantissa and decimal exponent.
PenaltyChi2 == [kind |-> "const", mant |-> 1, exp10 |-> 16]

\* ------------------------------------------------------------ python lists
Range0(n) == 0 .. (n - 1)

SeqMin(s) == CHOOSE m \in {s[i] : i \in DOMAIN s} : \A j \in DOMAIN s : m <= s[j]

SeqMax(s) == CHOOSE m \in {s[i] : i \in DOMAIN s} : \A j \in DOMAIN s : m >= s[j]

RECURSIVE SeqSum(_)
SeqSum(s) == IF s = <<>> THEN 0 ELSE Head(s) + SeqSum(Tail(s))

\* s[a:b] for 0 <= a, 0 <= b.
PySlice(s, a, b) == SubSeq(s, a + 1, IF b < Len(s) THEN b ELSE Len(s))

\* [v for i in range(n)]
Fill(n, v) == [i \in 1 .. n |-> v]

\* np.where(s == v)[0]: the 0-based indices of the entries equal to v, ascending.
RECURSIVE WhereFrom(_, _, _)
WhereFrom(s, v, i) ==
    IF i >= Len(s) THEN <<>>
    ELSE (IF s[i + 1] = v THEN <<i>> ELSE <<>>) \o WhereFrom(s, v, i + 1)

np_where_eq(s, v) == WhereFrom(s, v, 0)

\* s[s != v]
RECURSIVE np_drop(_, _)
np_drop(s, v) ==
    IF s = <<>> THEN <<>>
    ELSE (IF Head(s) = v THEN <<>> ELSE <<Head(s)>>) \o np_drop(Tail(s), v)

Raise(e) == [status |-> "raise", error |-> e]

\* ------------------------------------------------------------- Strategy A
\* puls_series_from_given_puls: the theoretical values aligned on the
\* theoretical value closest to the given observed one.
\* Line 320: the index in Obs of the observation to build the series from.
NthObs(Obs, Obs_to_build_from) == np_where_eq(Obs, Obs_to_build_from)[1]

\* Lines 321-322: the index of the theoretical value closest to it.
AbsDiff(TheoIn, Obs_to_build_from) ==
    [i \in 1 .. Len(TheoIn) |-> Abs(TheoIn[i] - Obs_to_build_from)]

\* The last of the indices of the smallest difference.
ClosestIndexLast(diff) ==
    np_where_eq(diff, SeqMin(diff))[Len(np_where_eq(diff, SeqMin(diff)))]

ClosestIndexOf(diff) == np_where_eq(diff, SeqMin(diff))[1]

ClosestIndex(TheoIn, Obs_to_build_from) ==
    ClosestIndexOf(AbsDiff(TheoIn, Obs_to_build_from))

\* Theo_sequence without the values of -1 in the beginning.
TheoSequenceUnpadded(TheoIn, Obs, nth_obs, index) ==
    (IF (index - nth_obs) < 0
     THEN PySlice(TheoIn, 0, index + (Len(Obs) - nth_obs))
     ELSE PySlice(TheoIn, index - nth_obs, index + (Len(Obs) - nth_obs)))
    \o (IF index + (Len(Obs) - nth_obs) > Len(TheoIn)
        THEN Fill((index + (Len(Obs) - nth_obs)) - Len(TheoIn), NoValue)
        ELSE <<>>)

\* Lines 325-336: Theo_sequence for the two indices.
TheoSequence(TheoIn, Obs, nth_obs, index) ==
    (IF (index - nth_obs) < 0
     THEN Fill(Abs(index - nth_obs), NoValue)
            \o PySlice(TheoIn, 0, index + (Len(Obs) - nth_obs))
     ELSE PySlice(TheoIn, index - nth_obs, index + (Len(Obs) - nth_obs)))
    \o (IF index + (Len(Obs) - nth_obs) > Len(TheoIn)
        THEN Fill((index + (Len(Obs) - nth_obs)) - Len(TheoIn), NoValue)
        ELSE <<>>)

AnchoredAt(TheoIn, Obs, nth_obs, index) ==
    [status |-> "return", value |-> TheoSequence(TheoIn, Obs, nth_obs, index),
     nth_obs |-> nth_obs, index |-> index]

puls_series_from_given_puls(TheoIn, Obs, Obs_to_build_from) ==
    IF np_where_eq(Obs, Obs_to_build_from) = <<>> THEN Raise("IndexError")
    ELSE IF TheoIn = <<>> THEN Raise("ValueError")
    ELSE AnchoredAt(TheoIn, Obs, NthObs(Obs, Obs_to_build_from),
                    ClosestIndex(TheoIn, Obs_to_build_from))

\* ------------------------------------------------------- spacing series
\* generate_spacing_series(periods, errors): the differences of consecutive
\* periods and, with errors, the pair of errors under the square root.
generate_spacing_series(periods, errors) ==
    [spacings |-> [i \in 1 .. (Len(periods) - 1) |-> periods[i + 1] - periods[i]],
     spacings_errors |-> IF errors = <<>> THEN <<>>
                         ELSE [i \in 1 .. (Len(periods) - 1) |-> <<errors[i], errors[i + 1]>>]]

\* ------------------------------------------------------------- Strategy B
\* ((period - tperiod) / error)**2 as an integer multiple of 1/ChiDen; an
\* error is the fraction num/den.
chisq_point(period, tperiod, error) ==
    ((period - tperiod) * error.den) * ((period - tperiod) * error.den)
        * (ChiDen \div (error.num * error.num))

\* Lines 378-389: the best individual match of every observed period.
Chisqs(tperiods, period, error) ==
    [i \in 1 .. Len(tperiods) |-> chisq_point(period, tperiods[i], error)]

MinInd(chisqs) == np_where_eq(chisqs, SeqMin(chisqs))

PairAt(tperiods, orders, period, chisqs, min_ind) ==
    [obs |-> period, theo |-> tperiods[min_ind[1] + 1],
     order |-> orders[min_ind[1] + 1], chisq |-> chisqs[min_ind[1] + 1]]

\* The pair of the last of the indices of the smallest chi-square.
PairOfLast(tperiods, orders, period, chisqs) ==
    PairAt(tperiods, orders, period, chisqs,
           <<MinInd(chisqs)[Len(MinInd(chisqs))]>>)

PairOf(tperiods, orders, period, chisqs) ==
    PairAt(tperiods, orders, period, chisqs, MinInd(chisqs))

BestMatch(tperiods, orders, period, error) ==
    PairOf(tperiods, orders, period, Chisqs(tperiods, period, error))

PairsOrders(tperiods, orders, operiods, operiods_errors) ==
    [ii \in 1 .. Len(operiods) |->
        BestMatch(tperiods, orders, operiods[ii], operiods_errors[ii])]

\* Lines 403-406.
IncreaseOrDecrease(orders) == IF orders[2] = orders[1] - 1 THEN -1 ELSE 1

\* Line 415: are sett and the next pair of consecutive radial order.
Consecutive(sett, nextsett, increase_or_decrease) ==
    Abs(sett.order) = Abs(nextsett.order) + increase_or_decrease

\* Lines 412-424: the loop over pairs_orders[:-1], from index ii on.
\* Lines 415-420: current and sequences after the test of consecutiveness.
AfterTest(sett, cons, state) ==
    IF cons THEN [current |-> Append(state.current, sett), sequences |-> state.sequences]
    ELSE [current |-> <<>>,
          sequences |-> Append(state.sequences, Append(state.current, sett))]

\* Lines 421-424: and after the test for the last index of the loop.
AfterLast(sett, last, state) ==
    IF last THEN [current |-> <<>>,
                  sequences |-> Append(state.sequences, Append(state.current, sett))]
    ELSE state

RECURSIVE ScanRuns(_, _, _, _)
ScanRuns(pairs, inc, ii, state) ==
    IF ii >= Len(pairs) - 1 THEN state.sequences
    ELSE ScanRuns(pairs, inc, ii + 1,
             AfterLast(pairs[ii + 1], ii = Len(pairs) - 2,
                 AfterTest(pairs[ii + 1],
                           Consecutive(pairs[ii + 1], pairs[ii + 2], inc), state)))

BuildSequences(pairs, inc) ==
    ScanRuns(pairs, inc, 0, [current |-> <<>>, sequences |-> <<>>])

\* np.sum(sequence[:,-1]) / len(sequence), as the fraction sum/len.
Score(sequence) ==
    [sum |-> SeqSum([i \in 1 .. Len(sequence) |-> sequence[i].chisq]),
     len |-> Len(sequence)]

ScoreLeq(a, b) == a.sum * b.len <= b.sum * a.len

\* Lines 425-436: the 0-based index in sequences of the sequence lseq.
LenList(sequences) == [i \in 1 .. Len(sequences) |-> Len(sequences[i])]

Longest(len_list) == np_where_eq(len_list, SeqMax(len_list))

Scores(sequences, longest) ==
    [k \in 1 .. Len(longest) |-> Score(sequences[longest[k] + 1])]

\* np.where(scores == min(scores))[0][0], 1-based.
MinScore(scores) ==
    CHOOSE k \in DOMAIN scores :
        /\ \A j \in DOMAIN scores : ScoreLeq(scores[k], scores[j])
        /\ \A j \in 1 .. (k - 1) : ~ScoreLeq(scores[j], scores[k])

\* The first of the longest sequences, whatever the scores.
SelectFirstLongest(sequences, longest) == longest[1]

SelectAmong(sequences, longest) ==
    IF Len(longest) = 1 THEN longest[1]
    ELSE longest[MinScore(Scores(sequences, longest))]

SelectLongest(sequences) == SelectAmong(sequences, Longest(LenList(sequences)))

\* Lines 438-459: the theoretical period and order read for every observed
\* index, from the alignment of the first element of lseq.
\* The index of the matched period of the first element of lseq, without
\* the index of its observed period.
ThrIndStartUnshifted(tperiods, operiods, lseq) ==
    np_where_eq(tperiods, lseq[1].theo)[1]

ThrIndStart(tperiods, operiods, lseq) ==
    np_where_eq(tperiods, lseq[1].theo)[1] - np_where_eq(operiods, lseq[1].obs)[1]

AlignAt(tperiods, orders, operiods, thr_ind_start) ==
    [periods |-> [k \in 1 .. Len(operiods) |->
                    IF (thr_ind_start + k - 1 >= 0) /\ (thr_ind_start + k - 1 < Len(tperiods))
                    THEN tperiods[thr_ind_start + k] ELSE NoValue],
     orders |-> [k \in 1 .. Len(operiods) |->
                    IF (thr_ind_start + k - 1 >= 0) /\ (thr_ind_start + k - 1 < Len(tperiods))
                    THEN orders[thr_ind_start + k] ELSE NoOrder],
     thr_ind_start |-> thr_ind_start]

AlignFrom(tperiods, orders, operiods, lseq) ==
    AlignAt(tperiods, orders, operiods, ThrIndStart(tperiods, operiods, lseq))

\* Lines 464-471: the chi-square of the spacing series, held by its terms.
Chi2Of(obs, thr) ==
    [kind |-> "spacings", obs_series |-> obs.spacings,
     obs_series_errors |-> obs.spacings_errors, thr_series |-> thr.spacings]

SeriesChi2(operiods, operiods_errors, final_theoretical_periods) ==
    Chi2Of(generate_spacing_series(operiods, operiods_errors),
           generate_spacing_series(final_theoretical_periods, <<>>))

\* The test of line 374 passing a pattern one entry short.
ShortPatternBelow(tperiods, operiods) == Len(tperiods) + 1 < Len(operiods)

ShortPattern(tperiods, operiods) == Len(tperiods) < Len(operiods)

\* Lines 462-491, for the alignment made.
ChisqReturn(operiods, operiods_errors, pairs_orders, sequences, lseq, aligned) ==
    [status |-> "return",
     series_chi2 |-> SeriesChi2(operiods, operiods_errors, aligned.periods),
     periods |-> aligned.periods, orders |-> aligned.orders,
     pairs_orders |-> pairs_orders, sequences |-> sequences, lseq |-> lseq]

\* Lines 438-459, for the sequence lseq.
ChisqFromRun(tperiods, orders, operiods, operiods_errors, pairs_orders, sequences, lseq) ==
    ChisqReturn(operiods, operiods_errors, pairs_orders, sequences, lseq,
                AlignFrom(tperiods, orders, operiods, lseq))

\* Lines 425-436, for the sequences found; max() of no length raises.
ChisqFromSequences(tperiods, orders, operiods, operiods_errors, pairs_orders, sequences) ==
    IF sequences = <<>> THEN Raise("ValueError")
    ELSE ChisqFromRun(tperiods, orders, operiods, operiods_errors, pairs_orders,
                      sequences, sequences[SelectLongest(sequences) + 1])

\* Lines 403-424, for the best matches found.
ChisqFromPairs(tperiods, orders, operiods, operiods_errors, pairs_orders) ==
    ChisqFromSequences(tperiods, orders, operiods, operiods_errors, pairs_orders,
                       BuildSequences(pairs_orders, IncreaseOrDecrease(orders)))

chisq_longest_sequence(tperiods, orders, operiods, operiods_errors) ==
    IF ShortPattern(tperiods, operiods)
    THEN [status |-> "return", series_chi2 |-> PenaltyChi2,
          periods |-> Fill(Len(operiods), NoValue),
          orders |-> Fill(Len(operiods), NoOrder),
          pairs_orders |-> <<>>, sequences |-> <<>>, lseq |-> <<>>]
    ELSE IF Len(orders) < 2 THEN Raise("IndexError")
    ELSE ChisqFromPairs(tperiods, orders, operiods, operiods_errors,
             PairsOrders(tperiods, orders, operiods, operiods_errors))

\* ----------------------------------------------------------- python values
\* An argument of a call carries its Python type, so that a call whose
\* arguments do not line up with the parameters behaves as Python does.
PyNone == [py |-> "NoneType", v |-> "None"]
PyObj(x) == [py |-> "object", v |-> x]
PyNum(x) == [py |-> "float", v |-> x]
PyArr(x) == [py |-> "ndarray", v |-> x]
PyList(x) == [py |-> "list", v |-> x]
PyStr(x) == [py |-> "str", v |-> x]
PyBool(x) == [py |-> "bool", v |-> x]

\* What zip() accepts.
Iterable(x) == x.py \in {"list", "ndarray", "str", "tuple"}

\* ---------------------------------------------------------------- rotation
\* A rotation rate is mant * 10^exp10; the rates of a fit are multiples of
\* the lower bound 1E-5 of the fit parameter.
Rot(k) == [mant |-> k, exp10 |-> -5]
TinyRot == [mant |-> 1, exp10 |-> -99]

\* Line 188: the stderr of a rotation whose uncertainty was not estimated is
\* None; it carries a rotation so that it compares with an estimated one.
NoStderr == [py |-> "NoneType", v |-> TinyRot]

RotLess(a, b) ==
    IF a.exp10 = b.exp10 THEN a.mant < b.mant
    ELSE IF a.mant = 0 \/ b.mant = 0 THEN a.mant < b.mant
    ELSE a.exp10 < b.exp10

\* The values a frequency can take, ascending; closed under Recip.
Chain == <<2, 3, 4, 6, 9, 12, 18>>

ChainPos(x) == CHOOSE i \in DOMAIN Chain : Chain[i] = x

\* asymptotic_object.scale_pattern(freqs, native rotation, rotation): the
\* pattern unchanged at the native rotation, every frequency one step up the
\* chain at a faster rotation and one step down at a slower one.
scale_pattern(freqs, native, rotation) ==
    IF rotation = native THEN freqs
    ELSE IF RotLess(native, rotation)
         THEN [i \in DOMAIN freqs |-> Chain[ChainPos(freqs[i]) + 1]]
         ELSE [i \in DOMAIN freqs |-> Chain[ChainPos(freqs[i]) - 1]]

\* -------------------------------------------------------------- assembler
\* np.delete(arr, np.where(cond)): a new array without the entries that
\* satisfy cond; arr itself is left as it is.
RECURSIVE np_delete_ge(_, _)
np_delete_ge(arr, bound) ==
    IF arr = <<>> THEN <<>>
    ELSE (IF Head(arr) >= bound THEN <<>> ELSE <<Head(arr)>>) \o np_delete_ge(Tail(arr), bound)

RECURSIVE np_delete_le(_, _)
np_delete_le(arr, bound) ==
    IF arr = <<>> THEN <<>>
    ELSE (IF Head(arr) <= bound THEN <<>> ELSE <<Head(arr)>>) \o np_delete_le(Tail(arr), bound)

\* Lines 259-263 and 271-275: the array np.delete returns for a later part.
\* The code does not bind it to a name.
DeletedCopy(which_observable, values, orders, output_pulsations) ==
    IF which_observable = "frequency"
    THEN IF orders[2] = orders[1] - 1
         THEN np_delete_ge(values, output_pulsations[Len(output_pulsations) - 1])
         ELSE np_delete_le(values, SeqMax(output_pulsations))
    ELSE IF orders[2] = orders[1] - 1
         THEN np_delete_le(values, SeqMax(output_pulsations))
         ELSE np_delete_ge(values, output_pulsations[Len(output_pulsations) - 1])

\* Lines 264 and 276: the array bound to Theo_value.
PatternAfterDelete(values, deleted_copy) == values

TheoValue(which_observable, freqs, periods, orders, output_pulsations) ==
    LET values == IF which_observable = "frequency" THEN freqs ELSE periods
    IN IF Len(output_pulsations) > 0
       THEN PatternAfterDelete(values,
                DeletedCopy(which_observable, values, orders, output_pulsations))
       ELSE values

\* Lines 265-267 and 277-279.
ObsPeriodOf(which_observable, Obs_part) ==
    IF which_observable = "frequency"
    THEN [i \in DOMAIN Obs_part |-> Recip(Obs_part[i])]
    ELSE Obs_part

ObsErrPOf(which_observable, Obs_part, ObsErr_part) ==
    IF which_observable = "frequency"
    THEN [i \in DOMAIN Obs_part |->
            [num |-> ObsErr_part[i] * UnitSq, den |-> Obs_part[i] * Obs_part[i]]]
    ELSE [i \in DOMAIN Obs_part |-> [num |-> ObsErr_part[i], den |-> 1]]

\* The largest observed value of the part for either observable.
HighestObsValue(which_observable, Obs_part) == SeqMax(Obs_part)

HighestObsFreq(which_observable, Obs_part) ==
    IF which_observable = "frequency" THEN SeqMax(Obs_part) ELSE SeqMin(Obs_part)

\* The periods selected, left as periods for either observable.
ChisqSelectedAsPeriods(which_observable, r) ==
    IF r.status # "return" THEN r
    ELSE [status |-> "return", value |-> r.periods]

\* Lines 289-292: the periods selected, in the observable.
ChisqSelected(which_observable, r) ==
    IF r.status # "return" THEN r
    ELSE [status |-> "return",
          value |-> IF which_observable = "frequency"
                    THEN [i \in DOMAIN r.periods |-> Recip(r.periods[i])]
                    ELSE r.periods]

\* Lines 283-294: the selection made for one part.
SelectPart(which_observable, method_build_series, Theo_value, periods, orders, Obs_part, ObsErr_part, highest_amp_puls_part) ==
    IF method_build_series = "highest_amplitude"
    THEN puls_series_from_given_puls(Theo_value, Obs_part, highest_amp_puls_part)
    ELSE IF method_build_series = "highest_frequency"
    THEN puls_series_from_given_puls(Theo_value, Obs_part,
                                     HighestObsFreq(which_observable, Obs_part))
    ELSE IF method_build_series = "chisq_longest_sequence"
    THEN ChisqSelected(which_observable,
             chisq_longest_sequence(periods, orders,
                 ObsPeriodOf(which_observable, Obs_part),
                 ObsErrPOf(which_observable, Obs_part, ObsErr_part)))
    ELSE [status |-> "exit", error |-> "Incorrect method to build pulsational series."]

\* What the selector of a part is given, kept for the record of the calls.
CallRecord(which_observable, method_build_series, Theo_value, periods, Obs_part, highest_amp_puls_part, selected) ==
    [offered |-> IF method_build_series = "chisq_longest_sequence"
                 THEN (IF which_observable = "frequency"
                       THEN [i \in DOMAIN periods |-> Recip(periods[i])] ELSE periods)
                 ELSE Theo_value,
     Obs_part |-> Obs_part,
     anchor |-> IF method_build_series = "highest_amplitude" THEN highest_amp_puls_part
                ELSE IF method_build_series = "highest_frequency"
                THEN HighestObsFreq(which_observable, Obs_part) ELSE 0,
     selected |-> selected]

\* Obs - output_pulsations, the operands of the difference exchanged.
np_subtract_from(a, b) ==
    IF Len(a) = Len(b)
    THEN [status |-> "return", value |-> [i \in DOMAIN a |-> b[i] - a[i]]]
    ELSE IF Len(b) = 1
    THEN [status |-> "return", value |-> [i \in DOMAIN a |-> b[1] - a[i]]]
    ELSE IF Len(a) = 1
    THEN [status |-> "return", value |-> [i \in DOMAIN b |-> b[i] - a[1]]]
    ELSE Raise("ValueError")

\* output_pulsations - Obs of line 298: a list minus an array, broadcast as
\* numpy does.
np_subtract(a, b) ==
    IF Len(a) = Len(b)
    THEN [status |-> "return", value |-> [i \in DOMAIN a |-> a[i] - b[i]]]
    ELSE IF Len(b) = 1
    THEN [status |-> "return", value |-> [i \in DOMAIN a |-> a[i] - b[1]]]
    ELSE IF Len(a) = 1
    THEN [status |-> "return", value |-> [i \in DOMAIN b |-> a[1] - b[i]]]
    ELSE Raise("ValueError")

\* Lines 254-296: the loop over the zipped parts, from part k (1-based) on.
Stopped(r, out0, acc) ==
    [status |-> r.status, error |-> r.error, output_pulsations |-> out0,
     calls |-> acc.calls]

\* Line 296, and the record of the call.
Extended(which_observable, method_build_series, Theo_value, periods, Obs_part, highest_amp_puls_part, out0, acc, selected) ==
    [out |-> out0 \o selected,
     calls |-> Append(acc.calls,
                  CallRecord(which_observable, method_build_series, Theo_value,
                             periods, Obs_part, highest_amp_puls_part, selected))]

\* Line 255.
WithGap(output_pulsations) ==
    IF Len(output_pulsations) > 0 THEN Append(output_pulsations, 0)
    ELSE output_pulsations

RECURSIVE AssembleFrom(_, _, _, _, _, _, _, _, _, _, _)
RECURSIVE AssembleSelected(_, _, _, _, _, _, _, _, _, _, _, _, _, _)
RECURSIVE AssemblePart(_, _, _, _, _, _, _, _, _, _, _, _)

AssembleSelected(k, n, freqs, periods, orders, Obs_pattern_parts, ObsErr_pattern_parts, which_observable, method_build_series, highest_amp_puls, acc, out0, Theo_value, sel) ==
    IF sel.status # "return" THEN Stopped(sel, out0, acc)
    ELSE AssembleFrom(k + 1, n, freqs, periods, orders, Obs_pattern_parts,
             ObsErr_pattern_parts, which_observable, method_build_series,
             highest_amp_puls,
             Extended(which_observable, method_build_series, Theo_value, periods,
                      Obs_pattern_parts[k], highest_amp_puls[k], out0, acc, sel.value))

AssemblePart(k, n, freqs, periods, orders, Obs_pattern_parts, ObsErr_pattern_parts, which_observable, method_build_series, highest_amp_puls, acc, out0) ==
    IF which_observable \notin {"frequency", "period"}
    THEN Stopped([status |-> "exit", error |-> "Unknown observable to fit"], out0, acc)
    ELSE IF Len(out0) > 0 /\ Len(orders) < 2 THEN Stopped(Raise("IndexError"), out0, acc)
    ELSE IF Obs_pattern_parts[k] = <<>> THEN Stopped(Raise("ValueError"), out0, acc)
    ELSE AssembleSelected(k, n, freqs, periods, orders, Obs_pattern_parts,
             ObsErr_pattern_parts, which_observable, method_build_series,
             highest_amp_puls, acc, out0,
             TheoValue(which_observable, freqs, periods, orders, out0),
             SelectPart(which_observable, method_build_series,
                        TheoValue(which_observable, freqs, periods, orders, out0),
                        periods, orders, Obs_pattern_parts[k], ObsErr_pattern_parts[k],
                        highest_amp_puls[k]))

AssembleFrom(k, n, freqs, periods, orders, Obs_pattern_parts, ObsErr_pattern_parts, which_observable, method_build_series, highest_amp_puls, acc) ==
    IF k > n THEN [status |-> "return", output_pulsations |-> acc.out, calls |-> acc.calls]
    ELSE AssemblePart(k, n, freqs, periods, orders, Obs_pattern_parts,
             ObsErr_pattern_parts, which_observable, method_build_series,
             highest_amp_puls, acc, WithGap(acc.out))

ZipLen(a, b, c) ==
    IF Len(a) <= Len(b) /\ Len(a) <= Len(c) THEN Len(a)
    ELSE IF Len(b) <= Len(c) THEN Len(b) ELSE Len(c)

\* The estimated rotation given to scale_pattern as it is.
NativeRotationUnchanged(estimated_rotation) == estimated_rotation

\* Lines 243-249: the native rotation given to scale_pattern.
NativeRotation(estimated_rotation) ==
    IF estimated_rotation = Rot(0) THEN TinyRot ELSE estimated_rotation

\* Lines 243-249: the frequencies of the pattern at the rotation of params.
ScaledFreqs(params, asymptotic_object, estimated_rotation, freqs_input) ==
    IF asymptotic_object.py # "NoneType"
    THEN scale_pattern(freqs_input.v, NativeRotation(estimated_rotation.v), params.v)
    ELSE freqs_input.v

\* The call of scale_pattern made, for the record.
ScaleCalls(params, asymptotic_object, estimated_rotation) ==
    IF asymptotic_object.py # "NoneType"
    THEN <<[native |-> NativeRotation(estimated_rotation.v), rotation |-> params.v]>>
    ELSE <<>>

\* Line 251.
PeriodsOf(freqs) == [i \in DOMAIN freqs |-> Recip(freqs[i])]

\* Line 298, for the pulsations assembled.
Residuals(a, diff, scaled) ==
    IF diff.status # "return"
    THEN [status |-> "raise", error |-> diff.error,
          output_pulsations |-> a.output_pulsations, calls |-> a.calls,
          scaled |-> scaled]
    ELSE [status |-> "return", residual |-> diff.value,
          output_pulsations |-> a.output_pulsations, calls |-> a.calls,
          scaled |-> scaled]

Assembled(a, Obs, scaled) ==
    IF a.status # "return"
    THEN [status |-> a.status, error |-> a.error,
          output_pulsations |-> a.output_pulsations, calls |-> a.calls,
          scaled |-> scaled]
    ELSE Residuals(a, np_subtract(a.output_pulsations, Obs), scaled)

\* Lines 251-296, for the frequencies of the pattern.
AssembleAll(freqs, orders, Obs_pattern_parts, ObsErr_pattern_parts, which_observable, method_build_series, highest_amp_puls) ==
    AssembleFrom(1, ZipLen(Obs_pattern_parts, ObsErr_pattern_parts, highest_amp_puls),
        freqs, PeriodsOf(freqs), orders, Obs_pattern_parts, ObsErr_pattern_parts,
        which_observable, method_build_series, highest_amp_puls,
        [out |-> <<>>, calls |-> <<>>])

\* rescale_rotation_and_select_theoretical_pattern: the residuals of the
\* pattern selected at the rotation of params (or at the native rotation).
rescale_rotation_and_select_theoretical_pattern(params, asymptotic_object, estimated_rotation, freqs_input, orders, Obs, ObsErr, Obs_pattern_parts, ObsErr_pattern_parts, which_observable, method_build_series, highest_amp_puls) ==
    IF ~(Iterable(Obs_pattern_parts) /\ Iterable(ObsErr_pattern_parts)
            /\ Iterable(highest_amp_puls))
    THEN [status |-> "raise", error |-> "TypeError", output_pulsations |-> <<>>,
          calls |-> <<>>,
          scaled |-> ScaleCalls(params, asymptotic_object, estimated_rotation)]
    ELSE Assembled(
             AssembleAll(ScaledFreqs(params, asymptotic_object, estimated_rotation,
                                     freqs_input),
                         orders.v, Obs_pattern_parts.v, ObsErr_pattern_parts.v,
                         which_observable.v, method_build_series.v, highest_amp_puls.v),
             Obs.v, ScaleCalls(params, asymptotic_object, estimated_rotation))

\* ------------------------------------------------------------ the grid row
\* The marker of a mode that was not computed.
NaN == -UnitSq

\* The columns of the grid table up to 'Xc'.
GridColumns == <<"rot", "Z", "M", "logD", "aov", "fov", "Xc">>

RECURSIVE DropName(_, _)
DropName(names, name) ==
    IF names = <<>> THEN <<>>
    ELSE (IF Head(names) = name THEN <<>> ELSE <<Head(names)>>) \o DropName(Tail(names), name)

\* Lines 112-115: the frequencies and radial orders of the row, the modes
\* that were not computed removed.
RECURSIVE KeepComputed(_, _)
KeepComputed(values, marks) ==
    IF values = <<>> THEN <<>>
    ELSE (IF Head(marks) = NaN THEN <<>> ELSE <<Head(values)>>)
            \o KeepComputed(Tail(values), Tail(marks))

RowFreqs(row) == KeepComputed(row.n_pg_values, row.n_pg_values)

RowOrders(row) == KeepComputed(row.n_pg_labels, row.n_pg_values)

\* The indices of the gap markers counted from 1.
MissingPulsFromOne(ObsCol) ==
    LET missing_puls == np_where_eq(ObsCol, 0)
    IN [i \in DOMAIN missing_puls |-> missing_puls[i] - (i - 1) + 1]

\* Lines 117-120.
MissingPuls(ObsCol) ==
    LET missing_puls == np_where_eq(ObsCol, 0)
    IN [i \in DOMAIN missing_puls |-> missing_puls[i] - (i - 1)]

\* np.split(arr, indices)
np_split(arr, indices) ==
    [j \in 1 .. (Len(indices) + 1) |->
        PySlice(arr, IF j = 1 THEN 0 ELSE indices[j - 1],
                     IF j > Len(indices) THEN Len(arr) ELSE indices[j])]

\* The check of line 125 with the exit of line 127 for every method.
CheckAnchorsAnyMethod(Obs_pattern_parts, method_build_series, highest_amp_puls) ==
    IF Len(Obs_pattern_parts) # Len(highest_amp_puls)
    THEN [status |-> "exit",
          error |-> "Amount of pulsations specified to build patterns from is not equal to the amount of split-off parts in the pattern.",
          highest_amp_puls |-> highest_amp_puls]
    ELSE [status |-> "return", error |-> "", highest_amp_puls |-> highest_amp_puls]

\* Lines 125-129: the anchors after the check, or the exit of line 127.
CheckAnchors(Obs_pattern_parts, method_build_series, highest_amp_puls) ==
    IF Len(Obs_pattern_parts) # Len(highest_amp_puls)
    THEN IF method_build_series = "highest_amplitude"
         THEN [status |-> "exit",
               error |-> "Amount of pulsations specified to build patterns from is not equal to the amount of split-off parts in the pattern.",
               highest_amp_puls |-> highest_amp_puls]
         ELSE [status |-> "return", error |-> "",
               highest_amp_puls |-> Fill(Len(Obs_pattern_parts), "None")]
    ELSE [status |-> "return", error |-> "", highest_amp_puls |-> highest_amp_puls]

\* Lines 136-137 and 189-190: the parameters of the row without 'rot'.
RowParameters(row) ==
    LET names == DropName(GridColumns, "rot")
    IN [i \in DOMAIN names |-> PyNum(row.parameters[names[i]])]

\* Lines 139 and 153: Obs + residual.
np_add(a, b) == [i \in DOMAIN a |-> a[i] + b[i]]

Pulsations(values) == [i \in DOMAIN values |-> PyNum(values[i])]

\* Lines 132-140: the row at a fixed rotation.
FixedRotationCall(row, loc, which_observable, method_build_series, asymptotic_object, estimated_rotation) ==
    rescale_rotation_and_select_theoretical_pattern(
        PyNone, asymptotic_object, PyNum(estimated_rotation), PyArr(loc.freqs),
        PyArr(loc.Obs), PyArr(loc.ObsErr), PyList(loc.Obs_pattern_parts),
        PyList(loc.ObsErr_pattern_parts), PyStr(which_observable),
        PyStr(method_build_series), PyList(loc.highest_amp_puls), PyBool(FALSE))

FixedRotationRow(row, loc, estimated_rotation, residual) ==
    <<PyNum(estimated_rotation), PyNum(0)>> \o RowParameters(row)
        \o Pulsations(np_add(loc.Obs, residual))

\* Lines 148-152: one evaluation of the objective by the Minimizer.
Objective(rotation, loc, which_observable, method_build_series, asymptotic_object, estimated_rotation) ==
    rescale_rotation_and_select_theoretical_pattern(
        PyNum(rotation), asymptotic_object, PyNum(estimated_rotation),
        PyArr(loc.freqs), PyArr(loc.orders), PyArr(loc.Obs), PyArr(loc.ObsErr),
        PyList(loc.Obs_pattern_parts), PyList(loc.ObsErr_pattern_parts),
        PyStr(which_observable), PyStr(method_build_series),
        PyList(loc.highest_amp_puls))

\* Lines 153 and 188-191: the row at the fitted rotation.
OptimisedRow(row, loc, rotation, stderr, residual) ==
    <<PyNum(rotation), stderr>> \o RowParameters(row)
        \o Pulsations(np_add(residual, loc.Obs))

\* Lines 112-123: the local variables before the check of the anchors.
RowLocals(row, a) ==
    [freqs |-> RowFreqs(row), orders |-> RowOrders(row),
     Obs |-> np_drop(a.Obs, 0), ObsErr |-> np_drop(a.ObsErr, 0),
     Obs_pattern_parts |-> np_split(np_drop(a.Obs, 0), MissingPuls(a.Obs)),
     ObsErr_pattern_parts |-> np_split(np_drop(a.ObsErr, 0), MissingPuls(a.Obs)),
     highest_amp_puls |-> a.highest_amp_puls]

\* Line 145: the rotation the fit starts at.
StartRotation(estimated_rotation) ==
    IF RotLess(estimated_rotation, Rot(1)) THEN Rot(1) ELSE estimated_rotation

\* What a call of theoretical_pattern_from_dfrow ends with.
RowFailed(r) ==
    [status |-> r.status, error |-> r.error, list_out |-> PyNone, warning |-> ""]

RowReturned(list_out) ==
    [status |-> "return", error |-> "", list_out |-> PyList(list_out), warning |-> ""]

\* Lines 156-157: the warning logged for the message the solver ends with.
FitWarning(message) == IF message # "Fit succeeded." THEN message ELSE ""

\* Lines 156-193 with a fit that did not succeed taken for an error.
RowWarnedStrict(solver, returned) ==
    IF solver.message # "Fit succeeded."
    THEN [RowFailed([status |-> "raise", error |-> solver.message])
            EXCEPT !.warning = FitWarning(solver.message)]
    ELSE returned

\* Lines 156-193: the row returned, with the warning logged.
RowWarned(solver, returned) == [returned EXCEPT !.warning = FitWarning(solver.message)]

\* Lines 132-140 and 193, for the outcome r of the call of line 132.
RowFixed(row, a, l, r) ==
    IF r.status # "return" THEN RowFailed(r)
    ELSE RowReturned(FixedRotationRow(row, l, a.estimated_rotation, r.residual))

\* Line 188: the error of the fitted rotation, None when the solver could
\* not estimate it.
SolverStderr(solver) == IF solver.stderr_defined THEN PyNum(Rot(1)) ELSE NoStderr

\* Lines 144-193, for the first evaluation of the objective and for the
\* evaluation at the rotation the solver ends at.
RowFitted(row, l, solver, first, last) ==
    IF first.status # "return" THEN RowFailed(first)
    ELSE IF last.status # "return" THEN RowFailed(last)
    ELSE RowWarned(solver, RowReturned(OptimisedRow(row, l, solver.rotation,
                                                    SolverStderr(solver), last.residual)))

\* Lines 131-193, for the local variables l after the check of the anchors.
RowSelected(row, a, l, solver) ==
    IF a.asymptotic_object.py = "NoneType"
    THEN RowFixed(row, a, l,
             FixedRotationCall(row, l, a.which_observable, a.method_build_series,
                               a.asymptotic_object, a.estimated_rotation))
    ELSE RowFitted(row, l, solver,
             Objective(StartRotation(a.estimated_rotation), l, a.which_observable,
                       a.method_build_series, a.asymptotic_object, a.estimated_rotation),
             Objective(solver.rotation, l, a.which_observable, a.method_build_series,
                       a.asymptotic_object, a.estimated_rotation))

\* Lines 125-193, for the outcome c of the check of the anchors.
RowChecked(row, a, l, c, solver) ==
    IF c.status = "exit" THEN RowFailed(c)
    ELSE RowSelected(row, a, [l EXCEPT !.highest_amp_puls = c.highest_amp_puls], solver)

RowSplit(row, a, l, solver) ==
    RowChecked(row, a, l,
               CheckAnchors(l.Obs_pattern_parts, a.method_build_series, l.highest_amp_puls),
               solver)

\* theoretical_pattern_from_dfrow for a row, the arguments a fixed by
\* partial() and the rotation, its error and the message the solver ends with.
theoretical_pattern_from_dfrow(row, a, solver) == RowSplit(row, a, RowLocals(row, a), solver)

\* Lines 66-74: the header of the output table.
Header(table) ==
    [i \in 1 .. 2 |-> <<"rot", "rot_err">>[i]]
        \o DropName(GridColumns, "rot")
        \o [i \in 1 .. Len(table.Obs) |->
                IF table.index[i] = "f_missing" THEN "f_missing" ELSE "f" \o ToString(i)]

\* ------------------------------------------------------------------ bounds
MaxModes == 3
MaxObs == 4
MaxGaps == 1
MaxNfev == 2
MaxRot == 2
MaxRows == 3
MaxWorkers == 2

\* ------------------------------------------------------------------ inputs
\* Strictly increasing sequences of length n over the set S.
Increasing(S, n) == {s \in [1 .. n -> S] : \A i \in 1 .. (n - 1) : s[i] < s[i + 1]}

Reverse(s) == [i \in 1 .. Len(s) |-> s[Len(s) + 1 - i]]

InsertAt(s, p, v) == SubSeq(s, 1, p - 1) \o <<v>> \o SubSeq(s, p, Len(s))

\* The frequencies a grid row may hold: strictly inside the chain, so that a
\* rescaled frequency is a value of the chain too.
RowValues == {4, 6, 9}

\* A grid row: consecutive radial orders as column labels, a frequency or
\* NaN in each column; g modes, so the frequency grows with n_pg.
RowOf(values, first, step, id) ==
    [n_pg_labels |-> [i \in 1 .. Len(values) |-> first + step * (i - 1)],
     n_pg_values |-> values,
     parameters |-> [c \in {GridColumns[i] : i \in DOMAIN GridColumns} |->
                        IF c = "M" THEN id ELSE 1]]

ModeSeqs == UNION {Increasing(RowValues, n) : n \in 1 .. MaxModes}

ColumnSeqs == ModeSeqs \cup {InsertAt(m, 2, NaN) : m \in ModeSeqs}

GridRows ==
    {RowOf(c, -(Len(c) + 1), 1, 1) : c \in ColumnSeqs}
        \cup {RowOf(Reverse(c), -2, -1, 1) : c \in ColumnSeqs}

ObsValues == {3, 4, 6, 9}

ErrValues == {1, 2}

NonZero(s) == np_drop(s, 0)

\* The observable column of an observation table: at most MaxObs modes,
\* ordered increasing in frequency, and at most MaxGaps gap markers 0.
ObsColumns(which_observable) ==
    UNION {{c \in [1 .. n -> ObsValues \cup {0}] :
              /\ Len(NonZero(c)) \in 1 .. MaxObs
              /\ n - Len(NonZero(c)) <= MaxGaps
              /\ \A i \in 1 .. (Len(NonZero(c)) - 1) :
                    IF which_observable = "period"
                    THEN NonZero(c)[i] > NonZero(c)[i + 1]
                    ELSE NonZero(c)[i] < NonZero(c)[i + 1]}
           : n \in 1 .. (MaxObs + MaxGaps)}

ObsTableOf(col, err) ==
    [index |-> [i \in DOMAIN col |-> IF col[i] = 0 THEN "f_missing" ELSE "f"],
     Obs |-> col,
     ObsErr |-> [i \in DOMAIN col |-> IF col[i] = 0 THEN 0 ELSE err]]

Methods == {"highest_amplitude", "highest_frequency", "chisq_longest_sequence"}

Observables == {"frequency", "period"}

\* The configurations of a run: the valid methods and observables, and one
\* value of each that the code does not know.
ConfiguredMethods == Methods \cup {"longest_sequence"}

ConfiguredObservables == Observables \cup {"period_spacing"}

\* The observed patterns of the driver: one without gap and one with a gap.
GridObsColumns == {<<9, 6, 4>>, <<9, 6, 0, 4, 3>>}

\* The observable columns of a configuration; an unknown method or
\* observable is run on the patterns of the driver.
ConfiguredColumns(which_observable, method) ==
    IF which_observable \in Observables /\ method \in Methods
    THEN ObsColumns(which_observable)
    ELSE GridObsColumns

\* The anchors a run may be given: none, one observed value per part (the
\* first or the last of each part), or one anchor more than there are parts.
AnchorChoices(col) ==
    LET parts == np_split(NonZero(col), MissingPuls(col))
    IN {<<>>}
        \cup (IF \E j \in DOMAIN parts : parts[j] = <<>> THEN {}
              ELSE {[j \in DOMAIN parts |-> parts[j][1]],
                    [j \in DOMAIN parts |-> parts[j][Len(parts[j])]],
                    [j \in 1 .. (Len(parts) + 1) |-> parts[1][1]]})

EstimatedRotations == {Rot(k) : k \in 0 .. 1}

\* The grid tables of the driver: at most MaxRows rows, the row of index i
\* with the parameter M = i; all modes computed, or one mode missing in one
\* row of the table at most.
GridColumnSeqs == {<<4, 6, 9>>, <<4, NaN, 9>>}

GridTables ==
    UNION {{g \in [1 .. n -> GridColumnSeqs] :
               \A i, j \in 1 .. n : (g[i] # <<4, 6, 9>> /\ g[j] # <<4, 6, 9>>) => i = j}
           : n \in 1 .. MaxRows}

TableOf(g) == [i \in DOMAIN g |-> RowOf(g[i], -(Len(g[i]) + 1), 1, i)]

\* The inputs of a selector called on its own: a row whose modes may miss
\* anywhere, one observed segment with an error per point, any anchor.
SelValues == {Chain[i] : i \in 2 .. (Len(Chain) - 1)}

SelModeSeqs == UNION {Increasing(SelValues, n) : n \in 1 .. MaxModes}

SelColumnSeqs ==
    SelModeSeqs \cup UNION {{InsertAt(m, p, NaN) : p \in 1 .. (Len(m) + 1)} : m \in SelModeSeqs}

\* The radial orders n_pg of g modes are negative; those of p modes are
\* positive, and a row with both crosses zero.
SelRows ==
    {RowOf(c, -(Len(c) + 1), 1, 1) : c \in SelColumnSeqs}
        \cup {RowOf(Reverse(c), -2, -1, 1) : c \in SelColumnSeqs}
        \cup {RowOf(c, 1, 1, 1) : c \in SelModeSeqs}
        \cup {RowOf(c, -1, 1, 1) : c \in SelModeSeqs}

Segments(which_observable) ==
    UNION {IF which_observable = "period"
           THEN {Reverse(c) : c \in Increasing(SelValues, n)}
           ELSE Increasing(SelValues, n)
           : n \in 1 .. MaxObs}

SegmentErrors(method, seg) ==
    IF method = "chisq_longest_sequence" THEN [1 .. Len(seg) -> ErrValues]
    ELSE {Fill(Len(seg), 1)}

SegmentAnchors(method) ==
    IF method = "highest_amplitude" THEN {<<a>> : a \in SelValues} ELSE {<<>>}

TrialRotations == {Rot(k) : k \in 1 .. MaxRot}

\* What the solver of a row ends with: success at the lowest or the highest
\* trial rotation, or no success.
Solvers ==
    {[rotation |-> r, stderr_defined |-> TRUE, message |-> "Fit succeeded."]
        : r \in {Rot(1), Rot(MaxRot)}}
      \cup {[rotation |-> Rot(MaxRot), stderr_defined |-> FALSE,
             message |-> "Tolerance seems to be too small."]}

\* ------------------------------------------------------------------- state
VARIABLES
    summary_grid_row,   \* the row of the grid table being processed
    Obs_dFrame,         \* the observation table
    args,               \* the arguments fixed by partial() for every row
    pc,                 \* where theoretical_pattern_from_dfrow stands
    loc,                \* its local variables
    fit,                \* the Minimizer: state, rotation, evaluations
    evaluation,         \* the last call of the objective and its outcome
    list_out,           \* the row returned
    log,                \* what the logger received
    sel_in,             \* a call of a selector: the function and its arguments
    sel_out,            \* what the call returned
    Theo_dFrame,        \* the grid table
    pool,               \* the worker pool: its tasks and worker processes
    tsvfile,            \* the lines written to the output file
    main,               \* where construct_theoretical_freq_pattern stands
    surface_args,       \* the arguments of surface_constraint and the files read
    surface_pc,         \* where surface_constraint stands
    df_Theo,            \* the table of the models with their merit values
    indices_to_drop,    \* what df_Theo.apply returned
    index_cursor,       \* how many entries of indices_to_drop the loop has seen
    outputFile          \* the table written

selvars == <<sel_in, sel_out>>

gridvars == <<Theo_dFrame, pool, tsvfile, main>>

surfacevars == <<surface_args, surface_pc, df_Theo, indices_to_drop, index_cursor,
                 outputFile>>

vars == <<summary_grid_row, Obs_dFrame, args, pc, loc, fit, evaluation, list_out, log,
          selvars, gridvars, surfacevars>>

\* surface_constraint is not running.
NoSurface ==
    /\ surface_args = <<>>
    /\ surface_pc = "idle"
    /\ df_Theo = <<>>
    /\ indices_to_drop = <<>>
    /\ index_cursor = 0
    /\ outputFile = <<>>

NoCall == [fn |-> "none"]

NoGrid ==
    /\ Theo_dFrame = <<>>
    /\ pool = [tasks |-> <<>>, workers |-> <<>>]
    /\ tsvfile = <<>>
    /\ main = "idle"

NoLocals ==
    [freqs |-> <<>>, orders |-> <<>>, Obs |-> <<>>, ObsErr |-> <<>>,
     Obs_pattern_parts |-> <<>>, ObsErr_pattern_parts |-> <<>>,
     highest_amp_puls |-> <<>>]

NoFit == [state |-> "not started", rotation |-> Rot(0), nfev |-> 0,
          message |-> "", after_end |-> 0]

NoEvaluation == [status |-> "none"]

InitRow ==
    /\ \E which_observable \in ConfiguredObservables, method \in ConfiguredMethods :
         \E col \in ConfiguredColumns(which_observable, method) :
           /\ Obs_dFrame = ObsTableOf(col, 1)
           /\ \E asym \in {PyNone, PyObj("asymptotic")}, rot \in EstimatedRotations :
                \E anchors \in AnchorChoices(col) :
                  /\ asym = PyNone => rot = Rot(1)
                  /\ args = [Obs |-> col, ObsErr |-> Obs_dFrame.ObsErr,
                             which_observable |-> which_observable,
                             method_build_series |-> method,
                             highest_amp_puls |-> anchors,
                             asymptotic_object |-> asym,
                             estimated_rotation |-> rot]
    /\ summary_grid_row \in GridRows
    /\ pc = "start"
    /\ loc = NoLocals
    /\ fit = NoFit
    /\ evaluation = NoEvaluation
    /\ list_out = PyNone
    /\ log = <<>>
    /\ sel_in = NoCall
    /\ sel_out = NoCall
    /\ NoGrid
    /\ NoSurface

\* ----------------------------------------------------------------- actions
\* Lines 112-115.
BuildPattern ==
    /\ pc = "start"
    /\ loc' = [loc EXCEPT !.freqs = RowFreqs(summary_grid_row),
                          !.orders = RowOrders(summary_grid_row)]
    /\ pc' = "split"
    /\ UNCHANGED <<surfacevars, summary_grid_row, Obs_dFrame, args,
                   fit, evaluation, list_out, log, selvars, gridvars>>

\* Lines 117-123.
SplitObserved ==
    /\ pc = "split"
    /\ loc' = [loc EXCEPT
                 !.Obs = np_drop(args.Obs, 0),
                 !.ObsErr = np_drop(args.ObsErr, 0),
                 !.Obs_pattern_parts = np_split(np_drop(args.Obs, 0), MissingPuls(args.Obs)),
                 !.ObsErr_pattern_parts =
                     np_split(np_drop(args.ObsErr, 0), MissingPuls(args.Obs)),
                 !.highest_amp_puls = args.highest_amp_puls]
    /\ pc' = "check"
    /\ UNCHANGED <<surfacevars, summary_grid_row, Obs_dFrame, args,
                   fit, evaluation, list_out, log, selvars, gridvars>>

\* Lines 125-129.
CheckParts ==
    /\ pc = "check"
    /\ LET c == CheckAnchors(loc.Obs_pattern_parts, args.method_build_series,
                             loc.highest_amp_puls)
       IN IF c.status = "exit"
          THEN /\ log' = Append(log, [level |-> "error", text |-> c.error])
               /\ pc' = "exited"
               /\ loc' = loc
          ELSE /\ loc' = [loc EXCEPT !.highest_amp_puls = c.highest_amp_puls]
               /\ pc' = "select"
               /\ log' = log
    /\ UNCHANGED <<surfacevars, summary_grid_row, Obs_dFrame, args,
                   fit, evaluation, list_out, selvars, gridvars>>

\* What a failed call of the objective does to the row.
Failed(r) ==
    /\ pc' = IF r.status = "exit" THEN "exited" ELSE "raised"
    /\ log' = IF r.status = "exit"
              THEN Append(log, [level |-> "error", text |-> r.error]) ELSE log
    /\ list_out' = list_out

\* Lines 135-140 and 193, for the outcome r of the call of line 132.
FixedRotationWith(r) ==
    /\ evaluation' = r
    /\ IF r.status = "return"
       THEN /\ list_out' = PyList(FixedRotationRow(summary_grid_row, loc,
                                      args.estimated_rotation, r.residual))
            /\ pc' = "done"
            /\ log' = log
       ELSE Failed(r)

\* Lines 131-140 and 193.
FixedRotation ==
    /\ pc = "select"
    /\ args.asymptotic_object = PyNone
    /\ FixedRotationWith(FixedRotationCall(summary_grid_row, loc,
           args.which_observable, args.method_build_series, args.asymptotic_object,
           args.estimated_rotation))
    /\ UNCHANGED <<surfacevars, summary_grid_row, Obs_dFrame, args, loc, fit, selvars, gridvars>>

\* Lines 144-152: the Minimizer is built and starts at the estimated
\* rotation, not below the lower bound of the parameter.
StartFit ==
    /\ pc = "select"
    /\ args.asymptotic_object # PyNone
    /\ fit' = [fit EXCEPT !.state = "iterating",
                          !.rotation = StartRotation(args.estimated_rotation)]
    /\ pc' = "fit"
    /\ UNCHANGED <<surfacevars, summary_grid_row, Obs_dFrame, args,
                   loc, evaluation, list_out, log, selvars, gridvars>>

\* Line 152: the solver evaluates the objective at its trial rotation and
\* proposes the next one.
FitEvaluateWith(r) ==
    /\ evaluation' = r
    /\ IF r.status = "return"
       THEN /\ \E next \in TrialRotations :
                 fit' = [fit EXCEPT !.nfev = fit.nfev + 1, !.rotation = next]
            /\ UNCHANGED <<pc, log, list_out>>
       ELSE /\ Failed(r)
            /\ fit' = [fit EXCEPT !.nfev = fit.nfev + 1]

FitEvaluate ==
    /\ pc = "fit"
    /\ fit.state = "iterating"
    /\ fit.nfev < MaxNfev
    /\ FitEvaluateWith(Objective(fit.rotation, loc, args.which_observable,
           args.method_build_series, args.asymptotic_object, args.estimated_rotation))
    /\ UNCHANGED <<surfacevars, summary_grid_row, Obs_dFrame, args, loc, selvars, gridvars>>

\* Lines 152-193: the solver ends, with success or not, at a rotation whose
\* residuals it returns; the row is built from them.
FitEndWith(message, stderr, r) ==
    /\ fit.nfev = MaxNfev => message # "Fit succeeded."
    /\ fit' = [fit EXCEPT !.state = IF message = "Fit succeeded."
                                    THEN "converged" ELSE "failed",
                          !.message = message]
    /\ evaluation' = r
    /\ log' = IF FitWarning(message) # ""
              THEN Append(log, [level |-> "warning", text |-> FitWarning(message)])
              ELSE log
    /\ list_out' = PyList(OptimisedRow(summary_grid_row, loc, fit.rotation,
                                       stderr, r.residual))
    /\ pc' = "done"

FitEnd ==
    /\ pc = "fit"
    /\ fit.state = "iterating"
    /\ fit.nfev >= 1
    /\ \E message \in {"Fit succeeded.", "Tolerance seems to be too small."},
          defined \in BOOLEAN :
         FitEndWith(message, IF defined THEN PyNum(Rot(1)) ELSE NoStderr,
             Objective(fit.rotation, loc, args.which_observable,
                 args.method_build_series, args.asymptotic_object,
                 args.estimated_rotation))
    /\ UNCHANGED <<surfacevars, summary_grid_row, Obs_dFrame, args, loc, selvars, gridvars>>

\* ---------------------------------------------------- a selector on its own
\* One observed segment and one grid row: the row is processed up to the
\* first pass of the loop of line 254, where the selector is called.
InitSel ==
    /\ summary_grid_row \in SelRows
    /\ \E which_observable \in Observables, method \in Methods :
         \E seg \in Segments(which_observable) :
           \E errs \in SegmentErrors(method, seg), anchors \in SegmentAnchors(method) :
             /\ Obs_dFrame = [index |-> Fill(Len(seg), "f"), Obs |-> seg, ObsErr |-> errs]
             /\ args = [Obs |-> seg, ObsErr |-> errs,
                        which_observable |-> which_observable,
                        method_build_series |-> method,
                        highest_amp_puls |-> anchors,
                        asymptotic_object |-> PyNone,
                        estimated_rotation |-> Rot(1)]
    /\ pc = "start"
    /\ loc = NoLocals
    /\ fit = NoFit
    /\ evaluation = NoEvaluation
    /\ list_out = PyNone
    /\ log = <<>>
    /\ sel_in = NoCall
    /\ sel_out = NoCall
    /\ NoGrid
    /\ NoSurface

\* Lines 284 and 286, with the arguments of lines 264-279.
CallPulsWith(Theo_value, Obs_part, Obs_to_build_from) ==
    /\ sel_in' = [fn |-> "puls_series_from_given_puls", theo |-> Theo_value,
                  orders |-> loc.orders, obs |-> Obs_part, errors |-> <<>>,
                  anchor |-> Obs_to_build_from]
    /\ sel_out' = puls_series_from_given_puls(Theo_value, Obs_part, Obs_to_build_from)

CallPuls ==
    /\ pc = "select"
    /\ args.method_build_series \in {"highest_amplitude", "highest_frequency"}
    /\ CallPulsWith(TheoValue(args.which_observable, loc.freqs, PeriodsOf(loc.freqs),
                              loc.orders, <<>>),
                    loc.Obs_pattern_parts[1],
                    IF args.method_build_series = "highest_amplitude"
                    THEN loc.highest_amp_puls[1]
                    ELSE HighestObsFreq(args.which_observable, loc.Obs_pattern_parts[1]))
    /\ pc' = "returned"
    /\ UNCHANGED <<surfacevars, summary_grid_row, Obs_dFrame, args, loc, fit, evaluation, list_out, log,
                   gridvars>>

\* Line 288, with the arguments of lines 265-266 and 277-278.
CallChisqWith(tperiods, orders, operiods, operiods_errors) ==
    /\ sel_in' = [fn |-> "chisq_longest_sequence", theo |-> tperiods, orders |-> orders,
                  obs |-> operiods, errors |-> operiods_errors, anchor |-> 0]
    /\ sel_out' = chisq_longest_sequence(tperiods, orders, operiods, operiods_errors)

CallChisq ==
    /\ pc = "select"
    /\ args.method_build_series = "chisq_longest_sequence"
    /\ CallChisqWith(PeriodsOf(loc.freqs), loc.orders,
                     ObsPeriodOf(args.which_observable, loc.Obs_pattern_parts[1]),
                     ObsErrPOf(args.which_observable, loc.Obs_pattern_parts[1],
                               loc.ObsErr_pattern_parts[1]))
    /\ pc' = "returned"
    /\ UNCHANGED <<surfacevars, summary_grid_row, Obs_dFrame, args, loc, fit, evaluation, list_out, log,
                   gridvars>>

NextSel ==
    \/ BuildPattern
    \/ SplitObserved
    \/ CheckParts
    \/ CallPuls
    \/ CallChisq

SpecSel == InitSel /\ [][NextSel]_vars

\* ---------------------------------------------------------------- the driver
\* construct_theoretical_freq_pattern, after the two tables are read
\* (lines 47-56).
InitGrid ==
    /\ \E g \in GridTables : Theo_dFrame = TableOf(g)
    /\ \E col \in GridObsColumns :
         /\ Obs_dFrame = ObsTableOf(col, 1)
         /\ \E method \in ConfiguredMethods, asym \in {PyNone, PyObj("asymptotic")} :
              \E anchors \in AnchorChoices(col) :
                /\ method # "highest_amplitude" => anchors = <<>>
                /\ args = [Obs |-> col, ObsErr |-> Obs_dFrame.ObsErr,
                           which_observable |-> "period",
                           method_build_series |-> method,
                           highest_amp_puls |-> anchors,
                           asymptotic_object |-> asym,
                           estimated_rotation |-> Rot(1)]
    /\ \E nworkers \in {1, MaxWorkers} :
         pool = [tasks |-> <<>>, workers |-> Fill(nworkers, 0)]
    /\ tsvfile = <<>>
    /\ main = "start"
    /\ summary_grid_row = RowOf(<<4, 6, 9>>, -4, 1, 1)
    /\ pc = "start"
    /\ loc = NoLocals
    /\ fit = NoFit
    /\ evaluation = NoEvaluation
    /\ list_out = PyNone
    /\ log = <<>>
    /\ sel_in = NoCall
    /\ sel_out = NoCall
    /\ NoSurface

Task(state, outcome) == [state |-> state, outcome |-> outcome]

NoOutcome == RowFailed([status |-> "none", error |-> ""])

rowvars == <<summary_grid_row, Obs_dFrame, args, pc, loc, fit, evaluation, list_out, log>>

\* Lines 59-60: the pool is made and every row of the table is a task of it.
MapRows ==
    /\ main = "start"
    /\ pool' = [pool EXCEPT !.tasks = Fill(Len(Theo_dFrame), Task("queued", NoOutcome))]
    /\ main' = "mapped"
    /\ UNCHANGED <<surfacevars, rowvars, selvars, Theo_dFrame, tsvfile>>

\* Lines 63-74: the output file is opened and the header written.
WriteHeader ==
    /\ main = "mapped"
    /\ tsvfile' = <<Header(Obs_dFrame)>>
    /\ main' = "writing"
    /\ UNCHANGED <<surfacevars, rowvars, selvars, Theo_dFrame, pool>>

\* The tasks are handed out in the order of the rows.
NextQueued(tasks) ==
    CHOOSE i \in DOMAIN tasks :
        /\ tasks[i].state = "queued"
        /\ \A j \in 1 .. (i - 1) : tasks[j].state # "queued"

\* An idle worker of the pool takes the next task.
TakeTask(w) ==
    /\ main \in {"mapped", "writing"}
    /\ w \in DOMAIN pool.workers
    /\ pool.workers[w] = 0
    /\ \E i \in DOMAIN pool.tasks : pool.tasks[i].state = "queued"
    /\ pool' = [pool EXCEPT !.workers[w] = NextQueued(pool.tasks),
                            !.tasks[NextQueued(pool.tasks)].state = "running"]
    /\ UNCHANGED <<surfacevars, rowvars, selvars, Theo_dFrame, tsvfile, main>>

\* The result of a call is stored in the oldest task under way, whichever
\* worker made the call.
FinishOldestWith(w, outcome) ==
    pool' = [pool EXCEPT !.workers[w] = 0,
                         !.tasks[CHOOSE i \in DOMAIN pool.tasks :
                                    /\ pool.tasks[i].state = "running"
                                    /\ \A j \in 1 .. (i - 1) :
                                          pool.tasks[j].state # "running"] =
                             Task(IF outcome.status = "return" THEN "returned"
                                  ELSE IF outcome.status = "raise" THEN "raised"
                                  ELSE "lost", outcome)]

\* The worker has called theo_pattern_func on the row of its task: a row
\* returned or an exception raised is the result of the task; on sys.exit
\* the worker process ends without a result and the pool replaces it.
FinishTaskWith(w, outcome) ==
    pool' = [pool EXCEPT !.workers[w] = 0,
                         !.tasks[pool.workers[w]] =
                             Task(IF outcome.status = "return" THEN "returned"
                                  ELSE IF outcome.status = "raise" THEN "raised"
                                  ELSE "lost", outcome)]

FinishTask(w) ==
    /\ main \in {"mapped", "writing"}
    /\ w \in DOMAIN pool.workers
    /\ pool.workers[w] # 0
    /\ \E solver \in Solvers :
         FinishTaskWith(w, theoretical_pattern_from_dfrow(
                               Theo_dFrame[pool.workers[w]], args, solver))
    /\ UNCHANGED <<surfacevars, rowvars, selvars, Theo_dFrame, tsvfile, main>>

\* The result of any task that has returned is written, as an iterator over
\* the results in the order of their completion would give it.
WriteRowAsCompleted ==
    /\ main = "writing"
    /\ Len(tsvfile) <= Len(Theo_dFrame)
    /\ \E j \in DOMAIN pool.tasks :
          /\ pool.tasks[j].state = "returned"
          /\ tsvfile' = Append(tsvfile, pool.tasks[j].outcome.list_out.v)
    /\ main' = main
    /\ UNCHANGED <<surfacevars, rowvars, selvars, Theo_dFrame, pool>>

\* Lines 75-76: the next result of imap, in the order of the rows, is
\* written; the exception of a task is raised again in the loop.
WriteRow ==
    /\ main = "writing"
    /\ Len(tsvfile) <= Len(Theo_dFrame)
    /\ pool.tasks[Len(tsvfile)].state \in {"returned", "raised"}
    /\ IF pool.tasks[Len(tsvfile)].state = "returned"
       THEN /\ tsvfile' = Append(tsvfile, pool.tasks[Len(tsvfile)].outcome.list_out.v)
            /\ main' = main
       ELSE /\ tsvfile' = tsvfile
            /\ main' = "raised"
    /\ UNCHANGED <<surfacevars, rowvars, selvars, Theo_dFrame, pool>>

\* Line 77.
ClosePool ==
    /\ main = "writing"
    /\ Len(tsvfile) = Len(Theo_dFrame) + 1
    /\ main' = "closed"
    /\ UNCHANGED <<surfacevars, rowvars, selvars, Theo_dFrame, pool, tsvfile>>

NextGrid ==
    \/ MapRows
    \/ WriteHeader
    \/ \E w \in 1 .. MaxWorkers : TakeTask(w)
    \/ \E w \in 1 .. MaxWorkers : FinishTask(w)
    \/ WriteRow
    \/ ClosePool

SpecGrid == InitGrid /\ [][NextGrid]_vars

\* A worker is processing the row of a task: the call of theo_pattern_func
\* ends, so FinishTask is enabled.
Busy(w) ==
    /\ main \in {"mapped", "writing"}
    /\ w \in DOMAIN pool.workers
    /\ pool.workers[w] # 0

\* The processes are scheduled: the driver goes on when it can, an idle
\* worker takes the next task, and a busy worker finishes its task.
SpecGridFair ==
    /\ SpecGrid
    /\ WF_vars(MapRows)
    /\ WF_vars(WriteHeader)
    /\ WF_vars(WriteRow)
    /\ WF_vars(ClosePool)
    /\ \A w \in 1 .. MaxWorkers :
          /\ WF_vars(TakeTask(w))
          /\ ([]<>(~Busy(w)) \/ []<><<FinishTask(w)>>_vars)

NextRow ==
    \/ BuildPattern
    \/ SplitObserved
    \/ CheckParts
    \/ FixedRotation
    \/ StartFit
    \/ FitEvaluate
    \/ FitEnd

SpecRow == InitRow /\ [][NextRow]_vars

\* The objective is being called, by line 132 or by the solver of line 152:
\* the call ends, so one of FixedRotation, FitEvaluate and FitEnd is enabled.
RowRunning ==
    \/ pc = "select" /\ args.asymptotic_object = PyNone
    \/ pc = "fit"

\* The process that processes the row is scheduled: it takes its next step
\* for as long as the call of theoretical_pattern_from_dfrow is under way.
SpecRowFair ==
    /\ SpecRow
    /\ WF_vars(BuildPattern) /\ WF_vars(SplitObserved) /\ WF_vars(CheckParts)
    /\ WF_vars(StartFit)
    /\ ([]<>(~RowRunning) \/ []<><<FixedRotation \/ FitEvaluate \/ FitEnd>>_vars)

\* ------------------------------------------------------ surface constraints
\* additional_constraints.py. A mass is in tenths of a solar mass, the mass
\* ratio q and its error in tenths, the evolution parameter Xc in steps of
\* the grid, an age in units of time, a logarithm of Teff in thousandths.

PyInt(x) == [py |-> "int", v |-> x]

\* None where a number can stand; it carries a number so that it compares
\* with one.
NotSupplied == [py |-> "NoneType", v |-> 0]

\* What enforce_binary_constraints returns for a model to keep.
NoIndex == NotSupplied

\* np.log10 of a whole number from 1 to 9, in thousandths.
np_log10(x) == <<0, 301, 477, 602, 699, 778, 845, 903, 954>>[x]

\* Lines 41-49: the row lies in the n-sigma box of the observed columns.
InSurfaceBox(row, Obs, nsigma) ==
    /\ "Teff" \in Obs.columns
          => /\ row.logTeff < np_log10(Obs.Teff + nsigma * Obs.Teff_err)
             /\ row.logTeff > np_log10(Obs.Teff - nsigma * Obs.Teff_err)
    /\ "logg" \in Obs.columns
          => /\ row.logg < Obs.logg + nsigma * Obs.logg_err
             /\ row.logg > Obs.logg - nsigma * Obs.logg_err
    /\ "logL" \in Obs.columns
          => /\ row.logL < Obs.logL + nsigma * Obs.logL_err
             /\ row.logL > Obs.logL - nsigma * Obs.logL_err

SurfaceFiltered(df, Obs, nsigma) ==
    SelectSeq(df, LAMBDA row : InSurfaceBox(row, Obs, nsigma))

\* The default of the parameter evolution_step, in steps of the grid.
EvolutionStep == -1

\* Lines 90-93: the rows of the grid with the parameters of the model other
\* than the evolution parameter.
SameTrack(model, df) == SelectSeq(df, LAMBDA r : r.Z = model.Z /\ r.M = model.M)

\* .age.iloc[0] of the rows at the value x of the evolution parameter.
AgeAt(df, x) == SelectSeq(df, LAMBDA r : r.Xc = x)[1].age

GridEvolutionAttr(df) == [i \in DOMAIN df |-> df[i].Xc]

\* Lines 95-107, for the rows of the track of the model.
AgesOnTrack(model, df) ==
    IF 2 * Abs(model.Xc - SeqMax(GridEvolutionAttr(df))) < Abs(EvolutionStep)
    THEN [min_age |-> 0, max_age |-> AgeAt(df, model.Xc + EvolutionStep)]
    ELSE IF 2 * Abs(model.Xc - SeqMin(GridEvolutionAttr(df))) < Abs(EvolutionStep)
    THEN [min_age |-> AgeAt(df, model.Xc - EvolutionStep),
          max_age |-> AgeAt(df, model.Xc) + AgeAt(df, model.Xc)
                        - AgeAt(df, model.Xc - EvolutionStep)]
    ELSE [min_age |-> AgeAt(df, model.Xc - EvolutionStep),
          max_age |-> AgeAt(df, model.Xc + EvolutionStep)]

get_age(model, df) == AgesOnTrack(model, SameTrack(model, df))

\* round(num/den, 1) of a mass in tenths: the nearest tenth.
RoundTenth(num, den) == (2 * num + den) \div (2 * den)

\* Lines 145-150.
M2_min(model, constraint_companion) ==
    IF constraint_companion.primary_pulsates
    THEN RoundTenth(model.M * (constraint_companion.q - constraint_companion.q_err), 10)
    ELSE RoundTenth(model.M * 10, constraint_companion.q + constraint_companion.q_err)

M2_max(model, constraint_companion) ==
    IF constraint_companion.primary_pulsates
    THEN RoundTenth(model.M * (constraint_companion.q + constraint_companion.q_err), 10)
    ELSE RoundTenth(model.M * 10, constraint_companion.q - constraint_companion.q_err)

\* The points of the track with an age from min_age to max_age, the two
\* ages included.
InAgeWindowClosed(df, min_age, max_age) ==
    SelectSeq(df, LAMBDA p : p.star_age <= max_age /\ p.star_age >= min_age)

\* Line 158.
InAgeWindow(df, min_age, max_age) ==
    SelectSeq(df, LAMBDA p : p.star_age < max_age /\ p.star_age > min_age)

\* Lines 164-166.
InTeffBox(df, constraint_companion, nsigma) ==
    IF constraint_companion.Teff.py # "NoneType"
    THEN SelectSeq(
             SelectSeq(df, LAMBDA p : p.log_Teff <
                 np_log10(constraint_companion.Teff.v
                              + nsigma * constraint_companion.Teff_err)),
             LAMBDA p : p.log_Teff >
                 np_log10(constraint_companion.Teff.v
                              - nsigma * constraint_companion.Teff_err))
    ELSE df

\* Lines 167-169.
InLoggBox(df, constraint_companion, nsigma) ==
    IF constraint_companion.logg.py # "NoneType"
    THEN SelectSeq(
             SelectSeq(df, LAMBDA p : p.log_g <
                 constraint_companion.logg.v + nsigma * constraint_companion.logg_err),
             LAMBDA p : p.log_g >
                 constraint_companion.logg.v - nsigma * constraint_companion.logg_err)
    ELSE df

\* Lines 170-172.
InLogLBox(df, constraint_companion, nsigma) ==
    IF constraint_companion.logL.py # "NoneType"
    THEN SelectSeq(
             SelectSeq(df, LAMBDA p : p.log_L <
                 constraint_companion.logL.v + nsigma * constraint_companion.logL_err),
             LAMBDA p : p.log_L >
                 constraint_companion.logL.v - nsigma * constraint_companion.logL_err)
    ELSE df

\* Lines 158-174, for the track of a mass in the range: some point of it is
\* left by every filter.
TrackPasses(df, constraint_companion, nsigma, ages) ==
    IF Len(InAgeWindow(df, ages.min_age, ages.max_age)) = 0 THEN FALSE
    ELSE Len(InLogLBox(
                 InLoggBox(
                     InTeffBox(InAgeWindow(df, ages.min_age, ages.max_age),
                               constraint_companion, nsigma),
                     constraint_companion, nsigma),
                 constraint_companion, nsigma)) > 0

\* Lines 152-176: the loop over the tracks of the metallicity, from the
\* k-th track on.
RECURSIVE TracksFrom(_, _, _, _, _, _)
TracksFrom(k, isocloud_dict, model, constraint_companion, nsigma, ages) ==
    IF k > Len(isocloud_dict) THEN PyInt(model.name)
    ELSE IF \/ isocloud_dict[k].key_Mass < M2_min(model, constraint_companion)
            \/ isocloud_dict[k].key_Mass > M2_max(model, constraint_companion)
    THEN TracksFrom(k + 1, isocloud_dict, model, constraint_companion, nsigma, ages)
    ELSE IF TrackPasses(isocloud_dict[k].df, constraint_companion, nsigma, ages)
    THEN NoIndex
    ELSE TracksFrom(k + 1, isocloud_dict, model, constraint_companion, nsigma, ages)

enforce_binary_constraints(df_Theo_row, constraint_companion, isocloud_grid_summary, nsigma, surfaceGrid_dataFrame) ==
    TracksFrom(1, isocloud_grid_summary[df_Theo_row.Z], df_Theo_row,
               constraint_companion, nsigma,
               get_age(df_Theo_row, surfaceGrid_dataFrame))

\* Line 59: func for every row of the table.
Applied(df, a) ==
    [i \in DOMAIN df |->
        enforce_binary_constraints(df[i], a.constraint_companion.v,
            a.isocloud_grid_summary.v, a.nsigma, a.surfaceGrid_dataFrame.v)]

\* Line 62: df_Theo.drop(index_to_drop), the row of that label removed.
Dropped(df, index_to_drop) == SelectSeq(df, LAMBDA row : row.name # index_to_drop)

\* ---- the inputs of surface_constraint
Metallicities == {1, 2}

Masses == {10, 12}

\* The age of a model of the grid: the heavier star evolves faster.
AgeOf(M, Xc) == IF M = 10 THEN 1 + 2 * (3 - Xc) ELSE 1 + (3 - Xc)

\* The file with the surface properties and ages of the grid: for every
\* metallicity and mass the track from Xc = 3 down to Xc = 1.
GridTrack(Z, M) == [i \in 1 .. 3 |-> [Z |-> Z, M |-> M, Xc |-> 4 - i, age |-> AgeOf(M, 4 - i)]]

SurfaceGrid == GridTrack(1, 10) \o GridTrack(1, 12) \o GridTrack(2, 10) \o GridTrack(2, 12)

Point(a, t, g, l) == [star_age |-> a, log_Teff |-> t, log_g |-> g, log_L |-> l]

\* The tracks of a companion: no point; a point in every box; a point on the
\* edge of the 1-sigma boxes; two points that are each outside one box; a
\* point outside and a point inside.
TrackChoices ==
    {<<>>,
     <<Point(2, 699, 4, 2)>>,
     <<Point(4, 778, 5, 3)>>,
     <<Point(2, 699, 7, 2), Point(2, 903, 4, 2)>>,
     <<Point(4, 903, 4, 2), Point(2, 699, 4, 2)>>}

Isoclouds ==
    {[z \in Metallicities |->
         IF z = 1
         THEN <<[key_Mass |-> 6, df |-> a], [key_Mass |-> 10, df |-> b],
                [key_Mass |-> 17, df |-> c]>>
         ELSE <<[key_Mass |-> 10, df |-> <<Point(2, 699, 4, 2)>>]>>]
        : a \in TrackChoices, b \in TrackChoices, c \in TrackChoices}

Companions ==
    {[q |-> 8, q_err |-> 2, primary_pulsates |-> p,
      Teff |-> s[1], Teff_err |-> 1, logg |-> s[2], logg_err |-> 1,
      logL |-> s[3], logL_err |-> 1]
        : p \in BOOLEAN,
          s \in {<<NotSupplied, NotSupplied, NotSupplied>>,
                 <<PyNum(5), NotSupplied, NotSupplied>>,
                 <<PyNum(5), PyNum(4), PyNum(2)>>}}

\* The observations of the star itself, with or without the columns of the
\* surface observables.
SurfaceObservations ==
    {[columns |-> c, Teff |-> 5, Teff_err |-> 1, logg |-> 4, logg_err |-> 1,
      logL |-> 2, logL_err |-> 1] : c \in {{}, {"Teff", "logg", "logL"}}}

TheoRow(name, Z, M, Xc, logTeff) ==
    [name |-> name, Z |-> Z, M |-> M, Xc |-> Xc, logTeff |-> logTeff, logg |-> 4,
     logL |-> 2]

\* The table of the merit values: a model of any metallicity, mass and age
\* or a model outside the box of the star, and a model that is inside it; the
\* labels of the rows are those of the grid, not their positions.
MeritTables ==
    {<<TheoRow(3, Z, M, Xc, 699), TheoRow(7, 1, 10, 2, 699)>>
        : Z \in Metallicities, M \in Masses, Xc \in 1 .. 3}
      \cup {<<TheoRow(3, 1, 10, 1, 903), TheoRow(7, 1, 10, 2, 699)>>}

NoSummary == [py |-> "NoneType", v |-> [z \in Metallicities |-> <<>>]]

NoCompanion == [py |-> "NoneType", v |-> CHOOSE c \in Companions : TRUE]

\* surface_constraint, after the two tables are read (lines 38-39).
InitSurface ==
    /\ \E nsigma \in 1 .. 2, Obs \in SurfaceObservations, table \in MeritTables :
         \E companion \in {PyObj(c) : c \in Companions} \cup {NoCompanion} :
           \E summary \in {PyObj(iso) : iso \in Isoclouds} \cup {NoSummary} :
             /\ companion = NoCompanion => summary = NoSummary
             /\ surface_args = [merit_values_file |-> table, observations_file |-> Obs,
                                nsigma |-> nsigma, constraint_companion |-> companion,
                                isocloud_grid_summary |-> summary,
                                surfaceGrid_dataFrame |-> PyObj(SurfaceGrid)]
             /\ df_Theo = table
    /\ surface_pc = "read"
    /\ indices_to_drop = <<>>
    /\ index_cursor = 0
    /\ outputFile = <<>>
    /\ summary_grid_row = RowOf(<<4, 6, 9>>, -4, 1, 1)
    /\ Obs_dFrame = ObsTableOf(<<9, 6, 4>>, 1)
    /\ args = <<>>
    /\ pc = "idle"
    /\ loc = NoLocals
    /\ fit = NoFit
    /\ evaluation = NoEvaluation
    /\ list_out = PyNone
    /\ log = <<>>
    /\ sel_in = NoCall
    /\ sel_out = NoCall
    /\ NoGrid

othervars == <<summary_grid_row, Obs_dFrame, args, pc, loc, fit, evaluation, list_out,
               selvars, gridvars>>

\* Lines 41-49.
FilterSurface ==
    /\ surface_pc = "read"
    /\ df_Theo' = SurfaceFiltered(df_Theo, surface_args.observations_file,
                                  surface_args.nsigma)
    /\ surface_pc' = "filtered"
    /\ UNCHANGED <<othervars, log, surface_args, indices_to_drop, index_cursor, outputFile>>

\* Lines 51-59.
ApplyBinary ==
    /\ surface_pc = "filtered"
    /\ IF surface_args.constraint_companion.py = "NoneType"
       THEN /\ surface_pc' = "write"
            /\ UNCHANGED <<indices_to_drop, log>>
       ELSE IF \/ surface_args.isocloud_grid_summary.py = "NoneType"
               \/ surface_args.surfaceGrid_dataFrame.py = "NoneType"
       THEN /\ surface_pc' = "exit"
            /\ log' = Append(log, [level |-> "error",
                    text |-> "Please supply a summary file for the isocloud grid"])
            /\ UNCHANGED indices_to_drop
       ELSE /\ indices_to_drop' = Applied(df_Theo, surface_args)
            /\ surface_pc' = "drop"
            /\ UNCHANGED log
    /\ UNCHANGED <<othervars, surface_args, df_Theo, index_cursor, outputFile>>

\* Lines 60-62: one pass of the loop; None, or the NaN it has become in a
\* Series of numbers, is passed over.
DropIndex ==
    /\ surface_pc = "drop"
    /\ index_cursor < Len(indices_to_drop)
    /\ df_Theo' = IF indices_to_drop[index_cursor + 1].py # "NoneType"
                  THEN Dropped(df_Theo, indices_to_drop[index_cursor + 1].v)
                  ELSE df_Theo
    /\ index_cursor' = index_cursor + 1
    /\ surface_pc' = IF index_cursor + 1 = Len(indices_to_drop) THEN "write" ELSE "drop"
    /\ UNCHANGED <<othervars, log, surface_args, indices_to_drop, outputFile>>

\* Lines 64-66.
WriteOutput ==
    /\ surface_pc = "write"
    /\ outputFile' = df_Theo
    /\ surface_pc' = "done"
    /\ UNCHANGED <<othervars, log, surface_args, df_Theo, indices_to_drop, index_cursor>>

NextSurface ==
    \/ FilterSurface
    \/ ApplyBinary
    \/ DropIndex
    \/ WriteOutput

SpecSurface == InitSurface /\ [][NextSurface]_vars

\* ------------------------------------------------ properties of the filter
\* The point lies strictly inside the n-sigma box of every observable of the
\* companion that is supplied.
InsideEveryBox(p, c, nsigma) ==
    /\ c.Teff.py # "NoneType"
          => /\ np_log10(c.Teff.v - nsigma * c.Teff_err) < p.log_Teff
             /\ p.log_Teff < np_log10(c.Teff.v + nsigma * c.Teff_err)
    /\ c.logg.py # "NoneType"
          => /\ c.logg.v - nsigma * c.logg_err < p.log_g
             /\ p.log_g < c.logg.v + nsigma * c.logg_err
    /\ c.logL.py # "NoneType"
          => /\ c.logL.v - nsigma * c.logL_err < p.log_L
             /\ p.log_L < c.logL.v + nsigma * c.logL_err

\* Some track of the metallicity of the model, of a mass from M2_min to
\* M2_max, has a point of an age strictly between min_age and max_age that
\* lies in every box.
CompanionAllows(model) ==
    \E k \in DOMAIN surface_args.isocloud_grid_summary.v[model.Z] :
        /\ surface_args.isocloud_grid_summary.v[model.Z][k].key_Mass
              >= M2_min(model, surface_args.constraint_companion.v)
        /\ surface_args.isocloud_grid_summary.v[model.Z][k].key_Mass
              <= M2_max(model, surface_args.constraint_companion.v)
        /\ \E j \in DOMAIN surface_args.isocloud_grid_summary.v[model.Z][k].df :
              /\ surface_args.isocloud_grid_summary.v[model.Z][k].df[j].star_age
                    > get_age(model, surface_args.surfaceGrid_dataFrame.v).min_age
              /\ surface_args.isocloud_grid_summary.v[model.Z][k].df[j].star_age
                    < get_age(model, surface_args.surfaceGrid_dataFrame.v).max_age
              /\ InsideEveryBox(surface_args.isocloud_grid_summary.v[model.Z][k].df[j],
                                surface_args.constraint_companion.v, surface_args.nsigma)

\* The models left by the boxes of the star itself, to which the constraint
\* of the companion is applied.
ModelsApplied ==
    SurfaceFiltered(surface_args.merit_values_file, surface_args.observations_file,
                    surface_args.nsigma)

\* C27: enforce_binary_constraints returns None for a model exactly when a
\* track of the companion allows it, and the index of the model otherwise;
\* the table written holds exactly the models for which None was returned.
BinaryConstraintExact ==
    surface_pc \in {"drop", "write", "done"}
      /\ surface_args.constraint_companion.py # "NoneType"
        => /\ Len(indices_to_drop) = Len(ModelsApplied)
           /\ \A i \in DOMAIN ModelsApplied :
                 indices_to_drop[i] = IF CompanionAllows(ModelsApplied[i]) THEN NoIndex
                                      ELSE PyInt(ModelsApplied[i].name)
           /\ surface_pc = "done"
                 => outputFile = SelectSeq(ModelsApplied, CompanionAllows)

\* A model kept and a model removed, with every observable of the companion
\* supplied, and the table written.
BinaryConstraintWitness ==
    /\ surface_pc = "done"
    /\ surface_args.constraint_companion.py # "NoneType"
    /\ surface_args.constraint_companion.v.logL.py # "NoneType"
    /\ Len(indices_to_drop) = 2
    /\ indices_to_drop[1].py = "int"
    /\ indices_to_drop[2].py = "NoneType"
    /\ Len(outputFile) = 1
    /\ outputFile[1].name = 7

\* ------------------------------------------------------- selector properties
\* The 1-based position of the value v in the strictly monotone sequence s.
PositionOf(s, v) == CHOOSE i \in DOMAIN s : s[i] = v

ChisqReturned ==
    /\ pc = "returned"
    /\ sel_in.fn = "chisq_longest_sequence"

PulsReturned ==
    /\ pc = "returned"
    /\ sel_in.fn = "puls_series_from_given_puls"

\* C1: chisq_longest_sequence called with a theoretical pattern of fewer
\* entries than the observed segment returns normally, with the chi-square
\* 1e16, the period -1 and the order -1 at each of the len(operiods)
\* positions, and without having matched anything.
ShortPatternAllSentinel ==
    (ChisqReturned /\ Len(sel_in.theo) < Len(sel_in.obs))
        => /\ sel_out.status = "return"
           /\ sel_out.series_chi2.kind = "const"
           /\ sel_out.series_chi2.mant = 1
           /\ sel_out.series_chi2.exp10 = 16
           /\ Len(sel_out.periods) = Len(sel_in.obs)
           /\ Len(sel_out.orders) = Len(sel_in.obs)
           /\ \A i \in DOMAIN sel_in.obs :
                 sel_out.periods[i] = -Unit /\ sel_out.orders[i] = -1
           /\ sel_out.pairs_orders = <<>>
           /\ sel_out.sequences = <<>>

\* A pattern one entry short of an observed segment of several points.
ShortPatternWitness ==
    /\ ChisqReturned
    /\ Len(sel_in.obs) >= 3
    /\ Len(sel_in.theo) = Len(sel_in.obs) - 1
    /\ sel_out.status = "return"

\* The step of a theoretical pattern: -1 when its orders decrease along the
\* array, +1 otherwise.
PatternStep(orders) == IF orders[2] < orders[1] THEN -1 ELSE 1

\* C3: any two neighbouring radial orders, neither of them the sentinel, in
\* the orders returned by chisq_longest_sequence for a pattern built from a
\* grid row differ by the step of the pattern.
MatchedOrdersConsecutive ==
    (ChisqReturned /\ sel_out.status = "return" /\ Len(sel_in.orders) >= 2)
        => \A i \in 1 .. (Len(sel_out.orders) - 1) :
              (sel_out.orders[i] # -1 /\ sel_out.orders[i + 1] # -1)
                  => sel_out.orders[i + 1] - sel_out.orders[i] = PatternStep(sel_in.orders)

\* The best matches a and b follow each other in one of the runs.
SameRun(sequences, a, b) ==
    \E r \in DOMAIN sequences :
        \E k \in 1 .. (Len(sequences[r]) - 1) :
            /\ sequences[r][k].obs = a.obs
            /\ sequences[r][k + 1].obs = b.obs

\* C19: two best matches that follow each other are in the same run exactly
\* when the order of the second less the order of the first is the step of
\* the pattern, whatever the sign of the orders.
RunsFollowStep ==
    (/\ ChisqReturned /\ sel_out.status = "return"
     /\ sel_out.pairs_orders # <<>> /\ Len(sel_in.orders) >= 2)
        => \A i \in 1 .. (Len(sel_out.pairs_orders) - 1) :
              SameRun(sel_out.sequences, sel_out.pairs_orders[i], sel_out.pairs_orders[i + 1])
                  <=> (sel_out.pairs_orders[i + 1].order - sel_out.pairs_orders[i].order
                          = PatternStep(sel_in.orders))

\* The same for the best matches before the last one only, and for orders
\* that are all positive: the test of line 415 compares absolute values.
RunsFollowStepPositive ==
    (/\ ChisqReturned /\ sel_out.status = "return"
     /\ sel_out.pairs_orders # <<>> /\ Len(sel_in.orders) >= 2
     /\ \A k \in DOMAIN sel_in.orders : sel_in.orders[k] > 0)
        => \A i \in 1 .. (Len(sel_out.pairs_orders) - 2) :
              SameRun(sel_out.sequences, sel_out.pairs_orders[i], sel_out.pairs_orders[i + 1])
                  <=> (sel_out.pairs_orders[i + 1].order - sel_out.pairs_orders[i].order
                          = PatternStep(sel_in.orders))

\* The same for the best matches before the last one only, and for orders
\* that are all negative and follow each other.
RunsFollowStepNegative ==
    (/\ ChisqReturned /\ sel_out.status = "return"
     /\ sel_out.pairs_orders # <<>> /\ Len(sel_in.orders) >= 2
     /\ \A k \in DOMAIN sel_in.orders : sel_in.orders[k] < 0
     /\ \A k \in 1 .. (Len(sel_in.orders) - 1) :
           sel_in.orders[k + 1] - sel_in.orders[k] = PatternStep(sel_in.orders))
        => \A i \in 1 .. (Len(sel_out.pairs_orders) - 2) :
              SameRun(sel_out.sequences, sel_out.pairs_orders[i], sel_out.pairs_orders[i + 1])
                  <=> (sel_out.pairs_orders[i + 1].order - sel_out.pairs_orders[i].order
                          = PatternStep(sel_in.orders))

\* The runs one after the other.
RECURSIVE RunsInOrder(_)
RunsInOrder(sequences) ==
    IF sequences = <<>> THEN <<>> ELSE Head(sequences) \o RunsInOrder(Tail(sequences))

\* C20: the runs, one after the other, are the best matches in their order:
\* every observed point of the segment is in one run, once, the last point
\* too, and no run is empty.
RunsPartitionMatches ==
    (ChisqReturned /\ sel_out.status = "return" /\ sel_out.pairs_orders # <<>>)
        => /\ \A r \in DOMAIN sel_out.sequences : sel_out.sequences[r] # <<>>
           /\ Len(RunsInOrder(sel_out.sequences)) = Len(sel_in.obs)
           /\ \A i \in DOMAIN sel_in.obs :
                 /\ RunsInOrder(sel_out.sequences)[i].obs = sel_in.obs[i]
                 /\ RunsInOrder(sel_out.sequences)[i].order = sel_out.pairs_orders[i].order

\* What the loop of lines 412-424 does build: every best match but the last
\* is in a run, in order, and the last but one is there once more.
RunsHoldAllButLast ==
    (ChisqReturned /\ sel_out.status = "return" /\ sel_out.pairs_orders # <<>>)
        => /\ Len(RunsInOrder(sel_out.sequences)) = Len(sel_in.obs)
           /\ \A i \in 1 .. (Len(sel_in.obs) - 1) :
                 RunsInOrder(sel_out.sequences)[i].obs = sel_in.obs[i]
           /\ RunsInOrder(sel_out.sequences)[Len(sel_in.obs)].obs
                 = sel_in.obs[Len(sel_in.obs) - 1]

\* C21: chisq_longest_sequence called with a segment of one observed point
\* or more and a pattern that is not shorter returns, with one period and
\* one order for every observed point.
OnePerObservedPoint ==
    (ChisqReturned /\ Len(sel_in.obs) >= 1 /\ Len(sel_in.theo) >= Len(sel_in.obs))
        => /\ sel_out.status = "return"
           /\ Len(sel_out.periods) = Len(sel_in.obs)
           /\ Len(sel_out.orders) = Len(sel_in.obs)

\* The same for the segments of two observed points or more.
OnePerObservedPointOfTwo ==
    (ChisqReturned /\ Len(sel_in.obs) >= 2 /\ Len(sel_in.theo) >= Len(sel_in.obs))
        => /\ sel_out.status = "return"
           /\ Len(sel_out.periods) = Len(sel_in.obs)
           /\ Len(sel_out.orders) = Len(sel_in.obs)

\* The lowest position of the pattern whose period is nearest to the
\* observed period: the chi-squares of one observed period have one error,
\* so the nearest period has the smallest chi-square.
NearestPeriod(theo, period) ==
    CHOOSE k \in DOMAIN theo :
        /\ \A j \in DOMAIN theo : Abs(period - theo[k]) <= Abs(period - theo[j])
        /\ \A j \in 1 .. (k - 1) : Abs(period - theo[j]) > Abs(period - theo[k])

\* C22: the best match recorded for an observed period holds the period of
\* the pattern with the smallest chi-square, the first of them if several
\* have it, the order at the same position and that chi-square.
BestMatchIsFirstMinimum ==
    (ChisqReturned /\ sel_out.status = "return" /\ sel_out.pairs_orders # <<>>)
        => /\ Len(sel_out.pairs_orders) = Len(sel_in.obs)
           /\ \A ii \in DOMAIN sel_in.obs :
                 /\ sel_out.pairs_orders[ii].obs = sel_in.obs[ii]
                 /\ sel_out.pairs_orders[ii].theo
                       = sel_in.theo[NearestPeriod(sel_in.theo, sel_in.obs[ii])]
                 /\ sel_out.pairs_orders[ii].order
                       = sel_in.orders[NearestPeriod(sel_in.theo, sel_in.obs[ii])]
                 /\ sel_out.pairs_orders[ii].chisq
                       = chisq_point(sel_in.obs[ii],
                             sel_in.theo[NearestPeriod(sel_in.theo, sel_in.obs[ii])],
                             sel_in.errors[ii])
                 /\ \A j \in DOMAIN sel_in.theo :
                       sel_out.pairs_orders[ii].chisq
                           <= chisq_point(sel_in.obs[ii], sel_in.theo[j], sel_in.errors[ii])

\* An observed period as near to two periods of the pattern, neither of them
\* the first: the earlier of the two is its best match.
BestMatchTieWitness ==
    /\ ChisqReturned /\ sel_out.status = "return" /\ sel_out.pairs_orders # <<>>
    /\ \E ii \in DOMAIN sel_in.obs :
          \E k, j \in DOMAIN sel_in.theo :
             /\ 1 < k /\ k < j
             /\ NearestPeriod(sel_in.theo, sel_in.obs[ii]) = k
             /\ Abs(sel_in.obs[ii] - sel_in.theo[j]) = Abs(sel_in.obs[ii] - sel_in.theo[k])
             /\ sel_out.pairs_orders[ii].theo = sel_in.theo[k]
             /\ sel_out.pairs_orders[ii].chisq > 0

\* C23: the period and the order returned for the observed index i are those
\* of the pattern at t0 - o0 + i, for o0 the position in the segment of the
\* observed period of the first element of the selected run and t0 the
\* position in the pattern of its matched period, and -1 and -1 where the
\* pattern has no such position; that observed period gets its best match.
AlignedOnFirstOfRun ==
    (ChisqReturned /\ sel_out.status = "return" /\ sel_out.lseq # <<>>)
        => /\ \A i \in DOMAIN sel_in.obs :
                 IF (PositionOf(sel_in.theo, sel_out.lseq[1].theo)
                        - PositionOf(sel_in.obs, sel_out.lseq[1].obs) + i) \in DOMAIN sel_in.theo
                 THEN /\ sel_out.periods[i]
                            = sel_in.theo[PositionOf(sel_in.theo, sel_out.lseq[1].theo)
                                  - PositionOf(sel_in.obs, sel_out.lseq[1].obs) + i]
                      /\ sel_out.orders[i]
                            = sel_in.orders[PositionOf(sel_in.theo, sel_out.lseq[1].theo)
                                  - PositionOf(sel_in.obs, sel_out.lseq[1].obs) + i]
                 ELSE /\ sel_out.periods[i] = -Unit
                      /\ sel_out.orders[i] = -1
           /\ sel_out.periods[PositionOf(sel_in.obs, sel_out.lseq[1].obs)]
                 = sel_out.pairs_orders[PositionOf(sel_in.obs, sel_out.lseq[1].obs)].theo
           /\ sel_out.orders[PositionOf(sel_in.obs, sel_out.lseq[1].obs)]
                 = sel_out.pairs_orders[PositionOf(sel_in.obs, sel_out.lseq[1].obs)].order

\* The selected run starts after the first observed period, and the
\* alignment runs off the pattern at one end.
AlignedOnFirstWitness ==
    /\ ChisqReturned /\ sel_out.status = "return" /\ sel_out.lseq # <<>>
    /\ PositionOf(sel_in.obs, sel_out.lseq[1].obs) >= 2
    /\ PositionOf(sel_in.theo, sel_out.lseq[1].theo) >= 2
    /\ \E i \in DOMAIN sel_out.orders : sel_out.orders[i] = -1
    /\ \E i \in DOMAIN sel_out.orders : sel_out.orders[i] # -1

\* The sum of the per-point chi-squares of a run.
RunChisq(run) == SeqSum([i \in DOMAIN run |-> run[i].chisq])

\* C5: the run used for the alignment is one of the runs found, no run is
\* longer, and no run of the same length has a lower mean chi-square (sum
\* of the per-point chi-squares over the length).
LongestBestRunSelected ==
    (ChisqReturned /\ sel_out.status = "return" /\ sel_out.sequences # <<>>)
        => /\ \E i \in DOMAIN sel_out.sequences : sel_out.sequences[i] = sel_out.lseq
           /\ \A j \in DOMAIN sel_out.sequences :
                 /\ Len(sel_out.sequences[j]) <= Len(sel_out.lseq)
                 /\ Len(sel_out.sequences[j]) = Len(sel_out.lseq)
                       => RunChisq(sel_out.lseq) * Len(sel_out.sequences[j])
                            <= RunChisq(sel_out.sequences[j]) * Len(sel_out.lseq)

\* Several runs of the maximal length, and the first of them not the best.
TieBrokenWitness ==
    /\ ChisqReturned
    /\ sel_out.status = "return"
    /\ sel_out.sequences # <<>>
    /\ \E i \in DOMAIN sel_out.sequences :
          /\ Len(sel_out.sequences[i]) = Len(sel_out.lseq)
          /\ RunChisq(sel_out.sequences[i]) > RunChisq(sel_out.lseq)
          /\ \A j \in 1 .. (i - 1) : Len(sel_out.sequences[j]) < Len(sel_out.lseq)

\* C6: puls_series_from_given_puls, given an anchor that is in the observed
\* segment and equals a theoretical value, returns a sequence that holds this
\* value at the index of the anchor in the segment.
AnchorRoundTrip ==
    (/\ PulsReturned
     /\ \E i \in DOMAIN sel_in.obs : sel_in.obs[i] = sel_in.anchor
     /\ \E i \in DOMAIN sel_in.theo : sel_in.theo[i] = sel_in.anchor)
        => /\ sel_out.status = "return"
           /\ Len(sel_out.value) >= PositionOf(sel_in.obs, sel_in.anchor)
           /\ sel_out.value[PositionOf(sel_in.obs, sel_in.anchor)] = sel_in.anchor

\* The anchor later in the segment than its value is in the pattern.
AnchorRoundTripWitness ==
    /\ PulsReturned
    /\ \E i \in DOMAIN sel_in.obs : sel_in.obs[i] = sel_in.anchor
    /\ \E i \in DOMAIN sel_in.theo : sel_in.theo[i] = sel_in.anchor
    /\ PositionOf(sel_in.obs, sel_in.anchor) > PositionOf(sel_in.theo, sel_in.anchor)
    /\ sel_out.status = "return"
    /\ sel_out.value[1] = -Unit

\* The lowest position of a value of the pattern that is closest to x.
LowestClosest(theo, x) ==
    CHOOSE i \in DOMAIN theo :
        /\ \A k \in DOMAIN theo : Abs(theo[i] - x) <= Abs(theo[k] - x)
        /\ \A k \in 1 .. (i - 1) : Abs(theo[k] - x) > Abs(theo[i] - x)

\* C18: puls_series_from_given_puls, called with an anchor that is in Obs
\* and a pattern that is not empty, returns len(Obs) entries; entry j is the
\* value of the pattern at index - nth_obs + j when the pattern has that
\* position and -1 otherwise, for index the lowest closest position of the
\* pattern and nth_obs the position of the anchor in Obs.
PulsSeriesAligned ==
    (/\ PulsReturned
     /\ \E i \in DOMAIN sel_in.obs : sel_in.obs[i] = sel_in.anchor
     /\ sel_in.theo # <<>>)
        => /\ sel_out.status = "return"
           /\ Len(sel_out.value) = Len(sel_in.obs)
           /\ \A j \in DOMAIN sel_in.obs :
                 sel_out.value[j] =
                     IF (LowestClosest(sel_in.theo, sel_in.anchor)
                            - PositionOf(sel_in.obs, sel_in.anchor) + j) \in DOMAIN sel_in.theo
                     THEN sel_in.theo[LowestClosest(sel_in.theo, sel_in.anchor)
                                         - PositionOf(sel_in.obs, sel_in.anchor) + j]
                     ELSE -Unit

\* The series runs off both ends of the pattern.
PulsSeriesWitness ==
    /\ PulsReturned
    /\ \E i \in DOMAIN sel_in.obs : sel_in.obs[i] = sel_in.anchor
    /\ sel_out.status = "return"
    /\ Len(sel_in.obs) >= 3
    /\ sel_out.value[1] = -Unit
    /\ sel_out.value[Len(sel_in.obs)] = -Unit
    /\ \E j \in DOMAIN sel_out.value : sel_out.value[j] # -Unit

\* Two values of the pattern are as close to the anchor as each other.
PulsSeriesTieWitness ==
    /\ PulsReturned
    /\ \E i \in DOMAIN sel_in.obs : sel_in.obs[i] = sel_in.anchor
    /\ sel_out.status = "return"
    /\ \E i, k \in DOMAIN sel_in.theo :
          /\ i < k
          /\ LowestClosest(sel_in.theo, sel_in.anchor) = i
          /\ Abs(sel_in.theo[k] - sel_in.anchor) = Abs(sel_in.theo[i] - sel_in.anchor)

\* ------------------------------------------------------------ row properties
\* The row processed has ended, with a row returned or an exception raised.
RowEnded == pc \in {"done", "raised"}

\* Every observed segment has two values or more and the grid row two
\* computed modes or more.
WellFormedRun ==
    /\ Len(loc.orders) >= 2
    /\ \A j \in DOMAIN loc.Obs_pattern_parts : Len(loc.Obs_pattern_parts[j]) >= 2

\* The pulsation fields of the row returned.
PulsationFields == SubSeq(list_out.v, Len(GridColumns) + 2, Len(list_out.v))

\* C2: for an observed pattern with gap markers, the row assembled has a gap
\* sentinel at the position of every marker, real entries elsewhere, and as
\* many slots as the pattern has entries, gaps included.
GapPreserved ==
    (/\ RowEnded
     /\ WellFormedRun
     /\ args.asymptotic_object.py # "NoneType"
     /\ \E k \in DOMAIN args.Obs : args.Obs[k] = 0)
        => /\ pc = "done"
           /\ list_out.py = "list"
           /\ Len(PulsationFields) = Len(args.Obs)
           /\ \A k \in DOMAIN args.Obs : (args.Obs[k] = 0) <=> (PulsationFields[k].v = 0)

\* C4: a theoretical value selected for a segment is neither offered to the
\* selector of a later segment nor selected for it.
LaterSegmentsExcludeClaimed ==
    (evaluation.status # "none")
        => \A i \in DOMAIN evaluation.calls : \A j \in DOMAIN evaluation.calls :
              i < j =>
                \A m \in DOMAIN evaluation.calls[i].selected :
                    evaluation.calls[i].selected[m] # -Unit
                        => /\ \A n \in DOMAIN evaluation.calls[j].offered :
                                evaluation.calls[j].offered[n]
                                    # evaluation.calls[i].selected[m]
                           /\ \A n \in DOMAIN evaluation.calls[j].selected :
                                evaluation.calls[j].selected[n]
                                    # evaluation.calls[i].selected[m]

\* C9: the processing of a row ends with a row returned that has as many
\* fields as the header, at a fixed rotation as with the fit, with gaps in
\* the observed pattern as without.
RowHasHeaderFields ==
    (RowEnded /\ WellFormedRun)
        => /\ pc = "done"
           /\ list_out.py = "list"
           /\ Len(list_out.v) = Len(Header(Obs_dFrame))

\* The number of anchors supplied differs from the number of segments.
AnchorMismatch ==
    Len(np_split(np_drop(args.Obs, 0), MissingPuls(args.Obs))) # Len(args.highest_amp_puls)

\* C10: after the check of the anchors, a mismatch with the method
\* 'highest_amplitude' has ended the row with one error logged, nothing
\* selected, no fit started and no row returned; with another method the row
\* goes on with one anchor per segment, and an exit or a logged error, if
\* any, is the one of the assembler.
AnchorMismatchHandled ==
    (AnchorMismatch /\ pc \notin {"start", "split", "check"})
        => IF args.method_build_series = "highest_amplitude"
           THEN /\ pc = "exited"
                /\ Len(log) = 1
                /\ log[1].level = "error"
                /\ evaluation.status = "none"
                /\ fit.state = "not started"
                /\ list_out.py = "NoneType"
           ELSE /\ pc = "exited" => evaluation.status = "exit"
                /\ \A i \in DOMAIN log :
                     log[i].level = "error" => log[i].text = evaluation.error
                /\ Len(loc.highest_amp_puls) = Len(loc.Obs_pattern_parts)

\* A row returned for a run whose anchors did not match, with another method.
AnchorMismatchIgnoredWitness ==
    /\ AnchorMismatch
    /\ Len(args.highest_amp_puls) > 0
    /\ args.method_build_series = "highest_frequency"
    /\ pc = "done"
    /\ list_out.py = "list"

\* The run is configured with an observable or a method the code does not know.
UnknownConfiguration ==
    \/ args.which_observable \notin {"frequency", "period"}
    \/ args.method_build_series
          \notin {"highest_amplitude", "highest_frequency", "chisq_longest_sequence"}

\* C11: a call of the assembler for a run with an unknown observable or an
\* unknown method ends the row with the error logged and no residual
\* returned.
UnknownConfigurationFatal ==
    (evaluation.status # "none" /\ WellFormedRun /\ UnknownConfiguration)
        => /\ evaluation.status = "exit"
           /\ pc = "exited"
           /\ Len(log) >= 1
           /\ log[Len(log)].level = "error"
           /\ log[Len(log)].text = evaluation.error
           /\ list_out.py = "NoneType"

\* C14: without a rescaling object the row ends with the solver not started,
\* one call of the assembler that returned without rescaling, and a row
\* returned whose rotation is the estimated rotation and whose pulsations are
\* the ones the assembler selected on the native pattern.
FixedRotationSelectsNative ==
    (RowEnded /\ WellFormedRun /\ ~UnknownConfiguration
        /\ args.asymptotic_object.py = "NoneType")
        => /\ fit.state = "not started"
           /\ fit.nfev = 0
           /\ evaluation.status = "return"
           /\ evaluation.scaled = <<>>
           /\ pc = "done"
           /\ list_out.py = "list"
           /\ list_out.v[1].v = args.estimated_rotation
           /\ \A k \in DOMAIN PulsationFields :
                 PulsationFields[k].v = evaluation.output_pulsations[k]

\* The number of values of the first k segments.
SegmentsLen(parts, k) == SeqSum([j \in 1 .. k |-> Len(parts[j])])

Values(s) == {s[i] : i \in DOMAIN s}

\* C25: the k-th call of Strategy A is given the values of the k-th segment
\* and no other, and an anchor of that segment: the k-th configured value
\* with highest_amplitude; with highest_frequency the largest value of the
\* segment for frequencies and the smallest for periods.
AnchorOfOwnSegment ==
    (/\ evaluation.status # "none"
     /\ args.method_build_series \in {"highest_amplitude", "highest_frequency"}
     /\ args.which_observable \in {"frequency", "period"})
        => /\ Len(evaluation.calls) <= Len(loc.Obs_pattern_parts)
           /\ \A k \in DOMAIN evaluation.calls :
                 /\ evaluation.calls[k].Obs_part = loc.Obs_pattern_parts[k]
                 /\ evaluation.calls[k].anchor \in Values(loc.Obs_pattern_parts[k])
                 /\ IF args.method_build_series = "highest_amplitude"
                    THEN evaluation.calls[k].anchor = args.highest_amp_puls[k]
                    ELSE \A i \in DOMAIN loc.Obs_pattern_parts[k] :
                            IF args.which_observable = "frequency"
                            THEN loc.Obs_pattern_parts[k][i] <= evaluation.calls[k].anchor
                            ELSE loc.Obs_pattern_parts[k][i] >= evaluation.calls[k].anchor

\* Two segments of periods, each anchored on its own smallest period.
AnchorOfOwnSegmentWitness ==
    /\ evaluation.status # "none"
    /\ args.method_build_series = "highest_frequency"
    /\ args.which_observable = "period"
    /\ Len(evaluation.calls) = 2
    /\ Len(loc.Obs_pattern_parts[1]) >= 2
    /\ Len(loc.Obs_pattern_parts[2]) >= 2
    /\ evaluation.calls[2].anchor = loc.Obs_pattern_parts[2][Len(loc.Obs_pattern_parts[2])]

\* What Strategy B returns for the k-th call when it is given the pattern
\* and the observations of that call as periods.
MatchedAsPeriods(k) ==
    LET c == evaluation.calls[k]
        f == c.Obs_part
        e == loc.ObsErr_pattern_parts[k]
    IN IF args.which_observable = "frequency"
       THEN chisq_longest_sequence(
                [i \in DOMAIN c.offered |-> Recip(c.offered[i])], loc.orders,
                [i \in DOMAIN f |-> Recip(f[i])],
                [i \in DOMAIN f |-> [num |-> e[i] * UnitSq, den |-> f[i] * f[i]]])
       ELSE chisq_longest_sequence(c.offered, loc.orders, f,
                [i \in DOMAIN f |-> [num |-> e[i], den |-> 1]])

\* C26: what Strategy B contributes to the output is in the configured
\* observable: for periods the matched periods as they are; for frequencies
\* the observed f and err are given as 1/f and err/f^2, each matched period p
\* is output as 1/p, and the marker -1 of no counterpart is output as -1.
OutputInObservable ==
    (/\ evaluation.status # "none"
     /\ args.method_build_series = "chisq_longest_sequence"
     /\ args.which_observable \in {"frequency", "period"})
        => \A k \in DOMAIN evaluation.calls :
              /\ MatchedAsPeriods(k).status = "return"
              /\ Len(evaluation.calls[k].selected) = Len(MatchedAsPeriods(k).periods)
              /\ \A i \in DOMAIN evaluation.calls[k].selected :
                    evaluation.calls[k].selected[i] =
                        IF args.which_observable = "period"
                        THEN MatchedAsPeriods(k).periods[i]
                        ELSE IF MatchedAsPeriods(k).periods[i] = NoValue THEN NoValue
                        ELSE Recip(MatchedAsPeriods(k).periods[i])

\* Frequencies selected by Strategy B, one of them without a counterpart and
\* one that differs from its period.
OutputInObservableWitness ==
    /\ evaluation.status # "none"
    /\ args.method_build_series = "chisq_longest_sequence"
    /\ args.which_observable = "frequency"
    /\ Len(evaluation.calls) >= 1
    /\ \E i \in DOMAIN evaluation.calls[1].selected :
          evaluation.calls[1].selected[i] = NoValue
    /\ \E i \in DOMAIN evaluation.calls[1].selected :
          /\ evaluation.calls[1].selected[i] # NoValue
          /\ evaluation.calls[1].selected[i] # Recip(evaluation.calls[1].selected[i])

\* The observed pattern has no gap marker.
NoGap == \A k \in DOMAIN args.Obs : args.Obs[k] # 0

\* C15: every call of scale_pattern is given a native rotation that is not
\* zero: 1e-99 for an estimated rotation of 0, the estimated rotation
\* otherwise; and an estimated rotation of 0 raises no error.
NativeRotationNonZero ==
    (evaluation.status # "none")
        => /\ \A c \in DOMAIN evaluation.scaled :
                 /\ evaluation.scaled[c].native.mant # 0
                 /\ IF args.estimated_rotation.mant = 0
                    THEN /\ evaluation.scaled[c].native.mant = 1
                         /\ evaluation.scaled[c].native.exp10 = -99
                    ELSE evaluation.scaled[c].native = args.estimated_rotation
           /\ args.asymptotic_object.py # "NoneType" => Len(evaluation.scaled) = 1
           /\ (/\ args.estimated_rotation.mant = 0
               /\ args.asymptotic_object.py # "NoneType"
               /\ WellFormedRun /\ NoGap /\ ~UnknownConfiguration)
                  => evaluation.status = "return"

\* The objective evaluated for an estimated rotation of 0.
ZeroRotationWitness ==
    /\ evaluation.status = "return"
    /\ args.estimated_rotation.mant = 0
    /\ Len(evaluation.scaled) = 1
    /\ evaluation.scaled[1].native.exp10 = -99
    /\ pc = "done"

\* The terminal states of the optimisation of the rotation.
FitTerminal == fit.state \in {"converged", "failed"}

\* One step of the optimisation: not started, then iterating, then converged
\* or failed; nothing is evaluated after that, and a row is there only then.
FitStep ==
    /\ fit.state = "not started" => fit'.state \in {"not started", "iterating"}
    /\ fit.state = "iterating" => fit'.state \in {"iterating", "converged", "failed"}
    /\ FitTerminal => fit' = fit /\ evaluation' = evaluation
    /\ (args.asymptotic_object.py # "NoneType" /\ list_out'.py = "list")
          => fit'.state \in {"converged", "failed"}

\* C16: with a rescaling object, a known configuration, and segments and
\* modes of two or more, the optimisation goes from not started to iterating
\* and to one of converged and failed; once it iterates it always reaches one
\* of them, nothing is evaluated after, and the row is built only then.
FitReachesTerminal ==
    /\ [][FitStep]_vars
    /\ (fit.state = "iterating" /\ ~UnknownConfiguration /\ WellFormedRun) ~> FitTerminal

\* The same for the rows whose observed pattern has no gap marker and whose
\* segments and modes are two or more.
FitReachesTerminalNoGap ==
    /\ [][FitStep]_vars
    /\ (fit.state = "iterating" /\ ~UnknownConfiguration /\ NoGap /\ WellFormedRun)
          ~> FitTerminal

\* ------------------------------------------------------ objective properties
\* A step of the row once its local variables are set: the frequencies, the
\* orders, the observed values and errors, the parts and the anchors stay as
\* they are; an evaluation at the trial rotation of the evaluation before it
\* has the same outcome; and the residual of an evaluation that returns has
\* one entry per observed value, the value assembled minus the observed one.
ObjectiveStep ==
    /\ pc \in {"select", "fit"}
          => /\ loc' = loc
             /\ args' = args
             /\ summary_grid_row' = summary_grid_row
             /\ Obs_dFrame' = Obs_dFrame
    /\ (/\ evaluation.status # "none"
        /\ evaluation'.status # "none"
        /\ evaluation'.scaled = evaluation.scaled)
          => evaluation' = evaluation
    /\ evaluation'.status = "return"
          => /\ Len(evaluation'.residual) = Len(loc'.Obs)
             /\ Len(evaluation'.output_pulsations) = Len(loc'.Obs)
             /\ \A i \in DOMAIN loc'.Obs :
                   evaluation'.residual[i] =
                       evaluation'.output_pulsations[i] - loc'.Obs[i]

\* C29: evaluating the objective leaves its inputs as they are, two
\* evaluations at the same trial rotation give the same residuals, and the
\* residuals returned are the values assembled minus the observed values,
\* one per observed value.
ObjectiveIsPure == [][ObjectiveStep]_vars

\* The objective has returned residuals that are not all zero for several
\* observed values, and the solver evaluates it again at the same rotation.
ObjectiveIsPureWitness ==
    /\ pc = "fit"
    /\ fit.state = "iterating"
    /\ fit.nfev >= 1
    /\ evaluation.status = "return"
    /\ Len(evaluation.scaled) = 1
    /\ evaluation.scaled[1].rotation = fit.rotation
    /\ Len(evaluation.residual) >= 2
    /\ \E i \in DOMAIN evaluation.residual : evaluation.residual[i] # 0

\* --------------------------------------------------------- driver properties
\* The driver has ended: the pool closed, or an exception raised in the loop.
DriverEnded == main \in {"closed", "raised"}

\* The position of the parameter M in a row written.
FieldOfM == 1 + PositionOf(GridColumns, "M")

\* C8: when the driver ends, the output file holds the header and then one
\* row for every row of the grid table, each row once.
OneRowPerGridRow ==
    DriverEnded
        => /\ Len(tsvfile) = Len(Theo_dFrame) + 1
           /\ \A i \in DOMAIN Theo_dFrame :
                 tsvfile[i + 1][FieldOfM].v = Theo_dFrame[i].parameters["M"]

\* A worker has met a configuration error (the sys.exit of line 127, 281 or
\* 294) on the row of its task.
ConfigurationErrorMet ==
    \E i \in DOMAIN pool.tasks : pool.tasks[i].outcome.status = "exit"

\* C12: once a worker has met a configuration error on a row, the driver
\* ends, and it never writes a row for that row.
ConfigurationErrorEndsRun ==
    /\ ConfigurationErrorMet ~> DriverEnded
    /\ [](\A i \in DOMAIN pool.tasks :
            pool.tasks[i].outcome.status = "exit" => Len(tsvfile) <= i)

\* C13: a row whose fit ended without success (a warning was logged) is a
\* complete row (the rotation, its error or None, the parameters and the
\* pulsations), the driver writes it in its place and is not stopped by it,
\* and it closes the pool with every row written.
NonConvergenceRecovered ==
    \A i \in DOMAIN pool.tasks :
        pool.tasks[i].outcome.warning # ""
            => /\ pool.tasks[i].state = "returned"
               /\ pool.tasks[i].outcome.list_out.py = "list"
               /\ Len(pool.tasks[i].outcome.list_out.v) = Len(Header(Obs_dFrame))
               /\ \A k \in DOMAIN pool.tasks[i].outcome.list_out.v :
                     pool.tasks[i].outcome.list_out.v[k].py
                        \in (IF k = 2 THEN {"float", "NoneType"} ELSE {"float"})
               /\ main = "raised" => Len(tsvfile) # i
               /\ Len(tsvfile) > i => tsvfile[i + 1] = pool.tasks[i].outcome.list_out.v
               /\ main = "closed" => Len(tsvfile) = Len(Theo_dFrame) + 1

\* A row with a warning written, then a later row, and the pool closed.
NonConvergenceWitness ==
    /\ main = "closed"
    /\ \E i \in DOMAIN pool.tasks :
          /\ pool.tasks[i].outcome.warning # ""
          /\ pool.tasks[i].outcome.list_out.v[2].py = "NoneType"
          /\ i < Len(Theo_dFrame)
          /\ pool.tasks[i + 1].outcome.warning = ""
          /\ Len(tsvfile) = Len(Theo_dFrame) + 1

\* C28: the i-th line written after the header is the row returned for the
\* i-th row of the grid table, whatever the order in which the workers
\* ended their tasks.
WrittenInTableOrder ==
    \A i \in 1 .. (Len(tsvfile) - 1) :
        /\ i \in DOMAIN Theo_dFrame
        /\ pool.tasks[i].state = "returned"
        /\ tsvfile[i + 1] = pool.tasks[i].outcome.list_out.v
        /\ tsvfile[i + 1][FieldOfM].v = Theo_dFrame[i].parameters["M"]

\* The third row had its result before the second, which a worker is still
\* processing, and the first row is written.
WrittenInTableOrderWitness ==
    /\ Len(Theo_dFrame) = 3
    /\ Len(tsvfile) = 2
    /\ pool.tasks[2].state = "running"
    /\ pool.tasks[3].state = "returned"
    /\ pool.tasks[3].outcome.list_out.v # tsvfile[2]

\* Every row written, the rows differing from each other.
AllWrittenWitness ==
    /\ main = "closed"
    /\ Len(tsvfile) = 4
    /\ tsvfile[2] # tsvfile[3]
    /\ tsvfile[3] # tsvfile[4]

\* ------------------------------------------------------ rows on their own
\* Two results of theo_pattern_func are the same.
SameOutcome(a, b) ==
    /\ a.status = b.status
    /\ a.error = b.error
    /\ a.warning = b.warning
    /\ a.list_out.py = b.list_out.py
    /\ a.list_out.py = "list" => a.list_out.v = b.list_out.v

\* The outcome is what the row i of the table and the configuration give,
\* for one of the ways the solver can end.
RowResultOf(i, outcome) ==
    \E solver \in Solvers :
        /\ outcome.list_out.py = "list" => outcome.list_out.v[1].v = solver.rotation
        /\ SameOutcome(outcome, theoretical_pattern_from_dfrow(Theo_dFrame[i], args, solver))

\* A step of the driver or of a worker: the observations, the configuration
\* and the table stay as they are; the task that ends gets the result of its
\* own row, and the result of every other task stays as it is.
RowStep ==
    /\ args' = args
    /\ Obs_dFrame' = Obs_dFrame
    /\ Theo_dFrame' = Theo_dFrame
    /\ Len(pool.tasks) = Len(pool'.tasks)
          => \A i \in DOMAIN pool.tasks :
                IF pool.tasks[i].state = "running" /\ pool'.tasks[i].state # "running"
                THEN RowResultOf(i, pool'.tasks[i].outcome)
                ELSE SameOutcome(pool.tasks[i].outcome, pool'.tasks[i].outcome)

====
